---- MODULE Spec2Model ----
(***************************************************************************)
(* Model of the interactive session managers of shell-mcp.                 *)
(*                                                                         *)
(* The repository holds two ReplSessionManager classes:                    *)
(*   impl = "commands" : src/commands/repl-session.ts (unnamed/part_007),  *)
(*                       promise/exception based, with withTimeout, delay, *)
(*                       start/end arguments and the static                *)
(*                       CommandValidator;                                 *)
(*   impl = "tools"    : src/tools/repl-session.ts, result-object based,   *)
(*                       with an injected SecurityValidator.               *)
(* Text is a sequence of characters (one-character strings; "NUL" stands   *)
(* for the control character 0, "NL" for the newline, "BQ" the backquote). *)
(***************************************************************************)
EXTENDS Integers, Sequences, FiniteSets, TLC

VARIABLES
    server,          \* the Node process hosting the manager: "up" or "exited"
    impl,            \* which manager class is running
    security,        \* SecurityValidator.config (tools)
    config,          \* ReplConfig
    sessionCounter,  \* ReplSessionManager.sessionCounter
    sessions,        \* ReplSessionManager.sessions : id -> ReplSession
    procs,           \* the child processes spawned so far, by spawn order
    calls,           \* asynchronous operations suspended at an await
    collectors,      \* output collectors: promise state, buffers, listeners, timers
    issued,          \* every session id allocated so far, in order
    ret              \* the call that returned in the last step (or NoRet)

vars == <<server, impl, security, config, sessionCounter, sessions, procs,
          calls, collectors, issued, ret>>

(***************************************************************************)
(* Bounds of the model.                                                    *)
(***************************************************************************)
MaxSessions == 2
MaxStdin == 2
MaxOut == 2
MaxCalls == 2
MaxCollectors == 2
MaxTextLen == 2

(***************************************************************************)
(* Program constants (milliseconds).                                       *)
(***************************************************************************)
StartGraceMs == 100
SettleMs == 50
ToolsSettleMs == 100
EndCmdDelayMs == 100
StdinGraceMs == 500
TermGraceMs == 1000
CollectWaitMs == 1000

(***************************************************************************)
(* Text helpers.                                                           *)
(***************************************************************************)

\* String.prototype.includes on character sequences.
Includes(s, pat) ==
    \E i \in 0..(Len(s) - Len(pat)) :
        \A j \in 1..Len(pat) : s[i + j] = pat[j]

StartsWith(s, pat) ==
    /\ Len(pat) <= Len(s)
    /\ \A j \in 1..Len(pat) : s[j] = pat[j]

Drop(s, n) == IF n >= Len(s) THEN <<>> ELSE SubSeq(s, n + 1, Len(s))

IsSpace(c) == c \in {" ", "NL"}

IsUpperOrUnderscore(c) == c \in {"A", "D", "N", "R", "M", "_"}

IsUpperDigitOrUnderscore(c) == IsUpperOrUnderscore(c) \/ c \in {"0", "1"}

\* String.prototype.trim
RECURSIVE TrimLeft(_)
TrimLeft(s) ==
    IF s # <<>> /\ IsSpace(Head(s)) THEN TrimLeft(Tail(s)) ELSE s

RECURSIVE TrimRight(_)
TrimRight(s) ==
    IF s # <<>> /\ IsSpace(s[Len(s)])
    THEN TrimRight(SubSeq(s, 1, Len(s) - 1))
    ELSE s

Trim(s) == TrimLeft(TrimRight(s))

\* String.prototype.toLowerCase on the letters of the model's alphabet.
LowerChar(c) ==
    CASE c = "A" -> "a"
      [] c = "D" -> "d"
      [] c = "N" -> "n"
      [] c = "R" -> "r"
      [] c = "M" -> "m"
      [] OTHER -> c

ToLowerCase(s) == [i \in 1..Len(s) |-> LowerChar(s[i])]

\* Length of the longest prefix of s whose characters all satisfy the class
\* [A-Z0-9_].
RECURSIVE NameRun(_)
NameRun(s) ==
    IF s # <<>> /\ IsUpperDigitOrUnderscore(Head(s))
    THEN 1 + NameRun(Tail(s))
    ELSE 0

\* Index of the first ")" of s, or 0.
RECURSIVE FirstClose(_, _)
FirstClose(s, i) ==
    IF i > Len(s) THEN 0
    ELSE IF s[i] = ")" THEN i
    ELSE FirstClose(s, i + 1)

\* replace(/\$[A-Z_][A-Z0-9_]*/g, 'VAR')
RECURSIVE ReplaceVar(_)
ReplaceVar(s) ==
    IF s = <<>> THEN <<>>
    ELSE IF Len(s) >= 2 /\ s[1] = "$" /\ IsUpperOrUnderscore(s[2])
    THEN <<"V", "A", "R">> \o ReplaceVar(Drop(s, 1 + NameRun(Tail(s))))
    ELSE <<Head(s)>> \o ReplaceVar(Tail(s))

\* replace(/\$\{[A-Z_][A-Z0-9_]*\}/g, 'VAR')
RECURSIVE ReplaceBracedVar(_)
ReplaceBracedVar(s) ==
    IF s = <<>> THEN <<>>
    ELSE IF /\ Len(s) >= 4
            /\ s[1] = "$"
            /\ s[2] = "{"
            /\ IsUpperOrUnderscore(s[3])
            /\ 2 + NameRun(Drop(s, 2)) < Len(s)
            /\ s[3 + NameRun(Drop(s, 2))] = "}"
    THEN <<"V", "A", "R">> \o ReplaceBracedVar(Drop(s, 3 + NameRun(Drop(s, 2))))
    ELSE <<Head(s)>> \o ReplaceBracedVar(Tail(s))

\* replace(/\$\(\([^)]*\)\)/g, 'EXPR')
RECURSIVE ReplaceArith(_)
ReplaceArith(s) ==
    IF s = <<>> THEN <<>>
    ELSE IF /\ StartsWith(s, <<"$", "(", "(">>)
            /\ FirstClose(s, 4) # 0
            /\ FirstClose(s, 4) < Len(s)
            /\ s[FirstClose(s, 4) + 1] = ")"
    THEN <<"E", "X", "P", "R">> \o ReplaceArith(Drop(s, FirstClose(s, 4) + 1))
    ELSE <<Head(s)>> \o ReplaceArith(Tail(s))

(***************************************************************************)
(* The Validation Gate.                                                    *)
(***************************************************************************)
Accept == [valid |-> TRUE, reason |-> <<>>]

Reject(why) == [valid |-> FALSE, reason |-> why]

HasAny(s, chars) == \E i \in 1..Len(s) : s[i] \in chars

\* CommandValidator.DANGEROUS_PATTERNS, in order ("BQ" is the backquote).  The
\* last three patterns (a backquoted span, and the two process substitutions)
\* match only text that the first two already match, so the first match is
\* always one of the first three.
DangerousPattern(s) ==
    IF HasAny(s, {";", "&", "|", "BQ"}) THEN <<"chaining">>
    ELSE IF HasAny(s, {"<", ">"}) THEN <<"redirection">>
    ELSE IF Includes(s, <<".", ".", "/">>) \/ Includes(s, <<".", ".", "\\">>)
    THEN <<"traversal">>
    ELSE <<>>

\* CommandValidator.validateCommand (throws SecurityError on rejection)
StaticValidateCommand(command) ==
    IF Trim(command) = <<>> THEN Reject(<<"empty">>)
    ELSE IF DangerousPattern(ReplaceArith(ReplaceBracedVar(ReplaceVar(command)))) # <<>>
    THEN Reject(DangerousPattern(ReplaceArith(ReplaceBracedVar(ReplaceVar(command)))))
    ELSE Accept

\* CommandValidator.validateArgument
ValidateArgument(arg) ==
    IF DangerousPattern(arg) # <<>> THEN Reject(DangerousPattern(arg)) ELSE Accept

\* An operator list without the two command substitutions.
DangerousOperatorsNoSubstitution ==
    << <<"&", "&">>, <<"|", "|">>, <<";">>, <<"|">>, <<">">>, <<"<">>,
       <<">", ">">>, <<"<", "<">>, <<"&">> >>

\* SecurityValidator: the operator and file-operation lists, in order.
DangerousOperators ==
    << <<"&", "&">>, <<"|", "|">>, <<";">>, <<"|">>, <<">">>, <<"<">>,
       <<">", ">">>, <<"<", "<">>, <<"&">>, <<"$", "(">>, <<"BQ">> >>

FileOperations ==
    << <<"r", "m", " ">>, <<"d", "e", "l", " ">>, <<"r", "m", "d", "i", "r">>,
       <<"m", "v", " ">>, <<"c", "p", " ">>, <<"c", "o", "p", "y", " ">>,
       <<"m", "o", "v", "e", " ">> >>

\* The first entry of list that text includes, or <<>>.
RECURSIVE FirstIncluded(_, _)
FirstIncluded(text, list) ==
    IF list = <<>> THEN <<>>
    ELSE IF Includes(text, Head(list)) THEN Head(list)
    ELSE FirstIncluded(text, Tail(list))

\* The first element of command.split on the space character.
RECURSIVE BaseCommand(_)
BaseCommand(s) ==
    IF s = <<>> \/ Head(s) = " " THEN <<>>
    ELSE <<Head(s)>> \o BaseCommand(Tail(s))

\* SecurityValidator.validateCommand
SecurityValidateCommand(cfg, command) ==
    IF ~cfg.allowShellOperators /\ FirstIncluded(command, DangerousOperators) # <<>>
    THEN Reject(<<"operator", FirstIncluded(command, DangerousOperators)>>)
    ELSE IF Includes(command, <<".", ".", "/">>) \/ Includes(command, <<".", ".", "\\">>)
    THEN Reject(<<"traversal">>)
    ELSE IF /\ ~cfg.allowFileOperations
            /\ FirstIncluded(ToLowerCase(command), FileOperations) # <<>>
    THEN Reject(<<"file", Trim(FirstIncluded(ToLowerCase(command), FileOperations))>>)
    ELSE IF BaseCommand(command) \in cfg.blockedCommands
    THEN Reject(<<"blocked", BaseCommand(command)>>)
    ELSE IF cfg.allowedCommands # {} /\ BaseCommand(command) \notin cfg.allowedCommands
    THEN Reject(<<"not allowed", BaseCommand(command)>>)
    ELSE Accept

\* SecurityValidator.sanitizeInput: control characters are removed.
IsControl(c) == c = "NUL"

SanitizeInput(input) == SelectSeq(input, LAMBDA c : ~IsControl(c))

\* The gate consulted by sendCommand of the running manager.
ValidateCommand(command) ==
    IF impl = "commands"
    THEN StaticValidateCommand(command)
    ELSE SecurityValidateCommand(security, command)

(***************************************************************************)
(* Inputs of the model.                                                    *)
(***************************************************************************)
T_ok == <<"a">>
T_semi == <<"a", ";">>
T_nul == <<"r", "NUL", "m", " ">>

SendTexts == {T_ok, T_semi, T_nul}

\* The program of the session: "cat" in the repository's tests.
ProgramName == <<"c", "a", "t">>

NoMarker == <<>>
Marker == <<"D", "N">>
Markers == {NoMarker, Marker}

StdoutChunks == {<<"D">>, <<"N", " ">>, <<"D", "N">>}
StderrChunks == {<<"e">>}

\* Values Date.now() may return (a wall clock: two reads may agree).
Timestamps == {1, 2}

\* Caller-chosen timeouts: milliseconds for commands, seconds for tools.
CommandsTimeouts == {500, 2000}
ToolsTimeouts == {1, 2}

ExitCodes == {0, 1}

StartArgChoices == {<<>>, << <<";">> >>}
EndArgChoices == {<<>>, <<T_ok>>, <<T_semi>>}
CloseArgChoices == {<<>>, <<T_ok>>}

DefaultSecurity ==
    [allowShellOperators |-> FALSE, allowFileOperations |-> FALSE,
     blockedCommands |-> {}, allowedCommands |-> {}]

SecurityConfigs ==
    {DefaultSecurity, [DefaultSecurity EXCEPT !.allowShellOperators = TRUE]}

\* An id that startSession never allocates (the counter starts at 1).
UnknownId == <<0, 0>>

NoTimer == -1

(***************************************************************************)
(* State helpers.                                                          *)
(***************************************************************************)
\* The session id string session_<counter>_<Date.now()>, as the pair of its
\* two numbers.
\* A generator that drops the counter and names a session by the clock alone.
SessionIdFromClock(counter, t) == <<0, t>>

SessionId(counter, t) == <<counter, t>>

\* A spawned ChildProcess together with the ReplSession object that owns it
\* (the object outlives its entry in the sessions map).
NewProcess(id, spawned) ==
    [id |-> id,
     isActive |-> TRUE,
     status |-> IF spawned THEN "running" ELSE "nospawn",
     exitCode |-> -1,
     stdinEnded |-> FALSE,
     readerGone |-> FALSE,
     stdinError |-> FALSE,
     stdin |-> <<>>,
     signals |-> <<>>,
     emitted |-> 0,
     echoed |-> 0,
     outFlowing |-> FALSE,
     outPending |-> <<>>,
     errFlowing |-> FALSE,
     errPending |-> <<>>]

\* Map.set / Map.delete / Map.get on the sessions map.
MapSet(m, k, v) == [x \in DOMAIN m \cup {k} |-> IF x = k THEN v ELSE m[x]]

MapDelete(m, k) == [x \in DOMAIN m \ {k} |-> m[x]]

Has(sid) == sid \in DOMAIN sessions

SessionOf(sid) == procs[sessions[sid]]

\* getActiveSessions / listActiveSessions
getActiveSessions == {sid \in DOMAIN sessions : SessionOf(sid).isActive}

\* The outcome of a call, as its caller sees it.
Return(op, sid, err, success, out, errout) ==
    [op |-> op, sid |-> sid, err |-> err, success |-> success,
     out |-> out, errout |-> errout, warn |-> "none",
     error |-> <<>>, exitCode |-> -1]

Ok(op, sid) == Return(op, sid, "none", TRUE, <<>>, <<>>)

Fail(op, sid, err) == Return(op, sid, err, FALSE, <<>>, <<>>)

NoRet == <<>>

\* getActiveSession (commands) and the guard of sendCommand / receiveOutput
\* (tools): the error the lookup ends with, or "none".
LookupError(sid) ==
    IF impl = "commands"
    THEN IF ~Has(sid) THEN "NotFound"
         ELSE IF ~SessionOf(sid).isActive THEN "NotActive"
         ELSE "none"
    ELSE IF ~Has(sid) \/ ~SessionOf(sid).isActive THEN "NotFoundOrInactive"
         ELSE "none"

\* stdin.write(line): the line reaches the process only while the pipe is open.
\* The call itself never throws.  A write into a pipe whose reading end the
\* process has closed fails with EPIPE afterwards, as an 'error' event of the
\* stdin stream.
Write(p, text, line) ==
    IF p.status = "running" /\ ~p.stdinEnded
    THEN IF p.readerGone
         THEN [p EXCEPT !.stdinError = TRUE]
         ELSE [p EXCEPT !.stdin = Append(@, [text |-> text, line |-> line])]
    ELSE p

\* stdin.end()
EndStdin(p) == IF p.status = "running" THEN [p EXCEPT !.stdinEnded = TRUE] ELSE p

\* process.kill(signal): no signal is sent to a process that has exited or
\* was never spawned.
Kill(p, sig) ==
    IF p.status = "running" THEN [p EXCEPT !.signals = Append(@, sig)] ELSE p

\* The line sendCommand writes for a command.
LineOf(command) ==
    IF impl = "commands"
    THEN command \o <<"NL">>
    ELSE SanitizeInput(command) \o <<"NL">>

(***************************************************************************)
(* Output collectors: collectOutput + withTimeout (commands), the promise  *)
(* body of receiveOutput (tools).                                          *)
(***************************************************************************)
NoResult == Return("none", UnknownId, "none", FALSE, <<>>, <<>>)

\* The caller's timeout in milliseconds.
TimeoutMs(timeout) == IF impl = "commands" THEN timeout ELSE timeout * 1000

\* The collector of one receive: its listeners are attached and its timers
\* armed.
NewCollector(op, sid, pid, timeout, marker) ==
    [op |-> op, sid |-> sid, pid |-> pid, marker |-> marker,
     stdout |-> <<>>, stderr |-> <<>>,
     resolved |-> FALSE, settled |-> FALSE, result |-> NoResult,
     dataOn |-> TRUE, errOn |-> TRUE, closeOn |-> (impl = "commands"),
     waitTimer |-> IF impl = "commands" /\ marker = NoMarker
                   THEN CollectWaitMs ELSE NoTimer,
     timeoutTimer |-> TimeoutMs(timeout)]

\* A resolve that settles the call again when it is already settled.
ResolveAgain(c, success) ==
    [c EXCEPT !.resolved = TRUE, !.settled = TRUE, !.timeoutTimer = NoTimer,
              !.result = Return(c.op, c.sid, "none", success,
                                Trim(c.stdout), Trim(c.stderr))]

\* resolve(...) of the collector's promise.  In commands the then-callback of
\* withTimeout follows: it clears the timeout timer and settles the call,
\* unless the timeout has rejected it already.
Resolve(c, success) ==
    IF c.settled
    THEN [c EXCEPT !.resolved = TRUE]
    ELSE [c EXCEPT !.resolved = TRUE, !.settled = TRUE, !.timeoutTimer = NoTimer,
                   !.result = Return(c.op, c.sid, "none", success,
                                     Trim(c.stdout), Trim(c.stderr))]

\* checkEndCondition (commands)
checkEndCondition(c) ==
    IF c.resolved THEN c
    ELSE IF c.marker # NoMarker /\ Includes(c.stdout, c.marker)
    THEN Resolve(c, TRUE)
    ELSE c

\* dataHandler (commands) / stdoutHandler (tools) on one chunk.
stdoutHandler(c, chunk) ==
    IF impl = "commands"
    THEN checkEndCondition([c EXCEPT !.stdout = @ \o chunk])
    ELSE IF c.marker # NoMarker /\ Includes(chunk, c.marker) /\ ~c.resolved
    THEN [Resolve([c EXCEPT !.stdout = @ \o chunk], TRUE)
             EXCEPT !.dataOn = FALSE, !.errOn = FALSE]
    ELSE [c EXCEPT !.stdout = @ \o chunk]

\* errorHandler (commands) / stderrHandler (tools)
stderrHandler(c, chunk) == [c EXCEPT !.stderr = @ \o chunk]

\* A close listener that settles the call whatever happened before.
closeHandlerAgain(c, exitCode) ==
    [c EXCEPT !.resolved = TRUE, !.settled = TRUE, !.timeoutTimer = NoTimer,
              !.result = [Return(c.op, c.sid, "none", exitCode = 0,
                                 Trim(c.stdout), Trim(c.stderr))
                             EXCEPT !.exitCode = exitCode]]

\* closeHandler (commands): the success flag is exitCode === 0.
closeHandler(c, exitCode) ==
    IF c.resolved THEN c
    ELSE IF c.op = "execute" /\ ~c.settled
    THEN [Resolve(c, exitCode = 0) EXCEPT !.result.exitCode = exitCode]
    ELSE Resolve(c, exitCode = 0)

\* The 1000 ms timer of collectOutput (commands, no end marker).
waitExpired(c) ==
    IF c.resolved
    THEN [c EXCEPT !.waitTimer = NoTimer]
    ELSE [Resolve([c EXCEPT !.waitTimer = NoTimer], TRUE)
             EXCEPT !.dataOn = FALSE, !.errOn = FALSE, !.closeOn = FALSE]

\* The timer of withTimeout (commands: rejects with TimeoutError) or of
\* receiveOutput (tools: resolves with what was collected).
timeoutExpired(c) ==
    IF impl = "commands"
    THEN [c EXCEPT !.timeoutTimer = NoTimer, !.settled = TRUE,
                   !.result = IF c.settled THEN @
                              ELSE Fail(c.op, c.sid, "Timeout")]
    ELSE IF c.resolved
    THEN [c EXCEPT !.timeoutTimer = NoTimer]
    ELSE Resolve([c EXCEPT !.timeoutTimer = NoTimer], TRUE)

\* A collector that holds no listener and no timer and has answered its caller
\* is unreachable garbage.
Live(c) ==
    \/ ~c.settled
    \/ c.dataOn \/ c.errOn \/ c.closeOn
    \/ c.waitTimer # NoTimer
    \/ c.timeoutTimer # NoTimer

\* The calls that settled between two collector lists of equal length, in
\* listener order.
RECURSIVE Settlements(_, _, _)
Settlements(old, new, i) ==
    IF i > Len(old) THEN <<>>
    ELSE IF ~old[i].settled /\ new[i].settled
    THEN <<new[i].result>> \o Settlements(old, new, i + 1)
    ELSE Settlements(old, new, i + 1)

\* Replace the collectors by new: answer the callers that settled, drop garbage.
Collect(new) ==
    /\ collectors' = SelectSeq(new, Live)
    /\ ret' = Settlements(collectors, new, 1)

\* Every pending timer of the system.
Timers ==
    ({calls[i].timer : i \in 1..Len(calls)}
       \cup {collectors[i].waitTimer : i \in 1..Len(collectors)}
       \cup {collectors[i].timeoutTimer : i \in 1..Len(collectors)})
    \ {NoTimer}

\* Events already queued for the current turn of the event loop: the error
\* of a failed spawn, and buffered stream data once a stream is flowing.
Immediate ==
    \E i \in 1..Len(procs) :
        \/ procs[i].status = "nospawn"
        \/ procs[i].stdinError
        \/ procs[i].outFlowing /\ procs[i].outPending # <<>>
        \/ procs[i].errFlowing /\ procs[i].errPending # <<>>

MinOf(S) == CHOOSE x \in S : \A y \in S : x <= y

Elapse(timer, d) == IF timer = NoTimer THEN NoTimer ELSE timer - d

\* An operation suspended at an await: the session object it holds (pid), where
\* it will resume (pc), the timer it waits for and its remaining arguments.
Call(op, sid, pid, pc, timer, cmds, timeout, marker) ==
    [op |-> op, sid |-> sid, pid |-> pid, pc |-> pc, timer |-> timer,
     cmds |-> cmds, timeout |-> timeout, marker |-> marker]

RemoveAt(seq, i) == SubSeq(seq, 1, i - 1) \o SubSeq(seq, i + 1, Len(seq))

(***************************************************************************)
(* Initial state: one manager, no session.                                 *)
(***************************************************************************)
Init ==
    /\ server = "up"
    /\ impl \in {"commands", "tools"}
    /\ security \in (IF impl = "tools" THEN SecurityConfigs ELSE {DefaultSecurity})
    /\ config \in [startArgs : {<<>>},
                   endArgs : IF impl = "commands" THEN EndArgChoices ELSE {<<>>}]
    /\ sessionCounter = 0
    /\ sessions = [x \in {} |-> 0]
    /\ procs = <<>>
    /\ calls = <<>>
    /\ collectors = <<>>
    /\ issued = <<>>
    /\ ret = NoRet

(***************************************************************************)
(* startSession                                                            *)
(***************************************************************************)
StartArgsRejected(allArgs) ==
    \/ ~StaticValidateCommand(ProgramName).valid
    \/ \E i \in 1..Len(allArgs) : ~ValidateArgument(allArgs[i]).valid

\* commands: validate, spawn, register, then wait the start grace.
StartSessionCommands(args, t, spawned) ==
    /\ impl = "commands"
    /\ sessionCounter < MaxSessions
    /\ Len(calls) < MaxCalls
    /\ sessionCounter' = sessionCounter + 1
    /\ LET id == SessionId(sessionCounter + 1, t) IN
        IF StartArgsRejected(config.startArgs \o args)
        THEN /\ ret' = <<Fail("start", id, "SecurityError")>>
             /\ UNCHANGED <<sessions, procs, calls, issued>>
        ELSE /\ procs' = Append(procs, NewProcess(id, spawned))
             /\ sessions' = MapSet(sessions, id, Len(procs) + 1)
             /\ issued' = Append(issued, id)
             /\ calls' = Append(calls, Call("start", id, Len(procs) + 1, "grace",
                                            StartGraceMs, <<>>, 0, NoMarker))
             /\ ret' = NoRet
    /\ UNCHANGED <<server, impl, security, config, collectors>>

\* commands: the start grace is over.
\* A startSession that reports success after the grace interval without
\* looking at isActive.
StartGraceOverUnchecked(i) ==
    /\ calls[i].op = "start"
    /\ calls[i].timer = 0
    /\ calls' = RemoveAt(calls, i)
    /\ ret' = <<Ok("start", calls[i].sid)>>
    /\ UNCHANGED <<server, impl, security, config, sessionCounter, sessions, procs,
                   collectors, issued>>

StartGraceOver(i) ==
    /\ calls[i].op = "start"
    /\ calls[i].timer = 0
    /\ calls' = RemoveAt(calls, i)
    /\ ret' = IF procs[calls[i].pid].isActive
              THEN <<Ok("start", calls[i].sid)>>
              ELSE <<Fail("start", calls[i].sid, "StartFailed")>>
    /\ UNCHANGED <<server, impl, security, config, sessionCounter, sessions, procs,
                   collectors, issued>>

\* tools: spawn, register, return.
StartSessionTools(args, t, spawned) ==
    /\ impl = "tools"
    /\ sessionCounter < MaxSessions
    /\ sessionCounter' = sessionCounter + 1
    /\ LET id == SessionId(sessionCounter + 1, t) IN
        /\ procs' = Append(procs, NewProcess(id, spawned))
        /\ sessions' = MapSet(sessions, id, Len(procs) + 1)
        /\ issued' = Append(issued, id)
        /\ ret' = <<Ok("start", id)>>
    /\ UNCHANGED <<server, impl, security, config, calls, collectors>>

(***************************************************************************)
(* sendCommand                                                             *)
(***************************************************************************)
\* A sendCommand that looks the session up and skips the gate.
SendErrorNoGate(sid, command) == LookupError(sid)

\* The error sendCommand ends with, or "none": lookup first, then the gate.
SendError(sid, command) ==
    IF LookupError(sid) # "none" THEN LookupError(sid)
    ELSE IF ~ValidateCommand(command).valid THEN "SecurityRejected"
    ELSE "none"

\* The write of an accepted command.
SendWrite(sid, command) ==
    [procs EXCEPT ![sessions[sid]] = Write(@, command, LineOf(command))]

\* The ids a caller can name: the ids of the sessions whose startSession is
\* no longer suspended, and an id that was never allocated.
Starting(sid) == \E i \in 1..Len(calls) : calls[i].op = "start" /\ calls[i].sid = sid

CallerIds ==
    {issued[i] : i \in {k \in 1..Len(issued) : ~Starting(issued[k])}} \cup {UnknownId}

WithinStdinBound(sid) == Has(sid) => Len(SessionOf(sid).stdin) < MaxStdin

\* A sendCommand that treats a rejection by the gate as fatal to the session.
SendCommandFatal(sid, command) ==
    /\ WithinStdinBound(sid)
    /\ IF SendError(sid, command) = "none"
       THEN /\ procs' = SendWrite(sid, command)
            /\ ret' = <<Ok("send", sid)>>
       ELSE /\ procs' = IF SendError(sid, command) = "SecurityRejected"
                        THEN [procs EXCEPT ![sessions[sid]].isActive = FALSE]
                        ELSE procs
            /\ ret' = <<Fail("send", sid, SendError(sid, command))>>
    /\ UNCHANGED <<server, impl, security, config, sessionCounter, sessions, calls,
                   collectors, issued>>

SendCommand(sid, command) ==
    /\ WithinStdinBound(sid)
    /\ IF SendError(sid, command) = "none"
       THEN /\ procs' = SendWrite(sid, command)
            /\ ret' = <<Ok("send", sid)>>
       ELSE /\ procs' = procs
            /\ ret' = <<Fail("send", sid, SendError(sid, command))>>
    /\ UNCHANGED <<server, impl, security, config, sessionCounter, sessions, calls,
                   collectors, issued>>

(***************************************************************************)
(* receiveOutput and sendAndReceive                                        *)
(***************************************************************************)
Suspended(op) == Len(SelectSeq(calls, LAMBDA c : c.op = op))

WithinCollectorBound == Len(collectors) + Suspended("sendAndReceive") < MaxCollectors

\* receiveOutput as called by op: reject, or attach a fresh collector.
Receive(op, sid, timeout, marker) ==
    IF LookupError(sid) # "none"
    THEN /\ ret' = <<Fail(op, sid, LookupError(sid))>>
         /\ UNCHANGED <<procs, collectors>>
    ELSE /\ collectors' = Append(collectors,
                                 NewCollector(op, sid, sessions[sid], timeout, marker))
         /\ procs' = [procs EXCEPT ![sessions[sid]].outFlowing = TRUE,
                                   ![sessions[sid]].errFlowing = TRUE]
         /\ ret' = NoRet

ReceiveOutput(sid, timeout, marker) ==
    /\ WithinCollectorBound
    /\ Receive("receive", sid, timeout, marker)
    /\ UNCHANGED <<server, impl, security, config, sessionCounter, sessions, calls, issued>>

SettleDelay == IF impl = "commands" THEN SettleMs ELSE ToolsSettleMs

SendAndReceive(sid, command, timeout, marker) ==
    /\ WithinStdinBound(sid)
    /\ WithinCollectorBound
    /\ Len(calls) < MaxCalls
    /\ IF SendError(sid, command) = "none"
       THEN /\ procs' = SendWrite(sid, command)
            /\ calls' = Append(calls, Call("sendAndReceive", sid, sessions[sid],
                                           "settle", SettleDelay, <<>>, timeout, marker))
            /\ ret' = NoRet
       ELSE /\ ret' = <<Fail("sendAndReceive", sid, SendError(sid, command))>>
            /\ UNCHANGED <<procs, calls>>
    /\ UNCHANGED <<server, impl, security, config, sessionCounter, sessions, collectors, issued>>

\* The settle delay is over: receiveOutput.
SettleOver(i) ==
    /\ calls[i].op = "sendAndReceive"
    /\ calls[i].timer = 0
    /\ calls' = RemoveAt(calls, i)
    /\ Receive("sendAndReceive", calls[i].sid, calls[i].timeout, calls[i].marker)
    /\ UNCHANGED <<server, impl, security, config, sessionCounter, sessions, issued>>

(***************************************************************************)
(* closeSession                                                            *)
(***************************************************************************)
\* commands: the finally block, and the return.
CloseFinish(sid, rest, warn) ==
    /\ sessions' = MapDelete(sessions, sid)
    /\ calls' = rest
    /\ ret' = <<[Ok("close", sid) EXCEPT !.warn = warn]>>

\* commands: the shutdown-command loop, from the command at the head of cmds
\* to the next await.  A failing sendCommand throws into the catch block.
CloseContinue(sid, pid, cmds, rest) ==
    IF cmds = <<>>
    THEN /\ procs' = [procs EXCEPT ![pid] = EndStdin(@)]
         /\ calls' = Append(rest, Call("close", sid, pid, "grace", StdinGraceMs,
                                       <<>>, 0, NoMarker))
         /\ ret' = NoRet
         /\ UNCHANGED sessions
    ELSE IF SendError(sid, Head(cmds)) # "none"
    THEN /\ CloseFinish(sid, rest, "Error during session cleanup")
         /\ UNCHANGED procs
    ELSE /\ procs' = SendWrite(sid, Head(cmds))
         /\ calls' = Append(rest, Call("close", sid, pid, "endcmd", EndCmdDelayMs,
                                       Tail(cmds), 0, NoMarker))
         /\ ret' = NoRet
         /\ UNCHANGED sessions

CloseSessionCommands(sid, args) ==
    /\ impl = "commands"
    /\ Len(calls) < MaxCalls
    /\ IF ~Has(sid)
       THEN /\ ret' = <<[Ok("close", sid) EXCEPT
                           !.warn = "Attempted to close non-existent session"]>>
            /\ UNCHANGED <<sessions, procs, calls>>
       ELSE CloseContinue(sid, sessions[sid], config.endArgs \o args, calls)
    /\ UNCHANGED <<server, impl, security, config, sessionCounter, collectors, issued>>

\* commands: the delay after a shutdown command is over.
CloseNextCommand(i) ==
    /\ calls[i].op = "close"
    /\ calls[i].pc = "endcmd"
    /\ calls[i].timer = 0
    /\ CloseContinue(calls[i].sid, calls[i].pid, calls[i].cmds, RemoveAt(calls, i))
    /\ UNCHANGED <<server, impl, security, config, sessionCounter, collectors, issued>>

\* commands: the grace after stdin.end() is over.
CloseGraceOver(i) ==
    /\ calls[i].op = "close"
    /\ calls[i].pc = "grace"
    /\ calls[i].timer = 0
    /\ IF procs[calls[i].pid].isActive
       THEN /\ procs' = [procs EXCEPT ![calls[i].pid] = Kill(@, "SIGTERM")]
            /\ calls' = [calls EXCEPT ![i].pc = "term", ![i].timer = TermGraceMs]
            /\ ret' = NoRet
            /\ UNCHANGED sessions
       ELSE /\ CloseFinish(calls[i].sid, RemoveAt(calls, i), "none")
            /\ UNCHANGED procs
    /\ UNCHANGED <<server, impl, security, config, sessionCounter, collectors, issued>>

\* commands: the wait after SIGTERM is over.
CloseTermOver(i) ==
    /\ calls[i].op = "close"
    /\ calls[i].pc = "term"
    /\ calls[i].timer = 0
    /\ procs' = IF procs[calls[i].pid].isActive
                THEN [procs EXCEPT ![calls[i].pid] = Kill(@, "SIGKILL")]
                ELSE procs
    /\ CloseFinish(calls[i].sid, RemoveAt(calls, i), "none")
    /\ UNCHANGED <<server, impl, security, config, sessionCounter, collectors, issued>>

\* tools: closeSession is synchronous.
CloseSessionTools(sid) ==
    /\ impl = "tools"
    /\ IF ~Has(sid)
       THEN /\ ret' = <<Fail("close", sid, "NotFound")>>
            /\ UNCHANGED <<sessions, procs>>
       ELSE /\ procs' = IF SessionOf(sid).isActive
                        THEN [procs EXCEPT ![sessions[sid]] =
                                 [Kill(@, "SIGTERM") EXCEPT !.isActive = FALSE]]
                        ELSE procs
            /\ sessions' = MapDelete(sessions, sid)
            /\ ret' = <<Ok("close", sid)>>
    /\ UNCHANGED <<server, impl, security, config, sessionCounter, calls, collectors, issued>>

(***************************************************************************)
(* Closing every session: ShellMcpServer.shutdown over the commands        *)
(* manager, ReplSessionManager.cleanup in the tools manager.               *)
(***************************************************************************)
\* The ids getActiveSessions returns, in the insertion order of the map.
ActiveList == SelectSeq(issued, LAMBDA sid : sid \in getActiveSessions)

Sweeping == \E i \in 1..Len(calls) : calls[i].op = "closeAll"

\* The closeSession the sweep was awaiting has returned.
SweepReady(i) ==
    /\ calls[i].op = "closeAll"
    /\ ~\E j \in 1..Len(calls) : calls[j].op = "close" /\ calls[j].sid = calls[i].sid

\* commands: the closeSession(sid) call of the sweep, up to its first await;
\* rest holds the suspended calls, the sweep among them.
SweepClose(sid, rest) ==
    IF ~Has(sid)
    THEN /\ ret' = <<[Ok("close", sid) EXCEPT
                        !.warn = "Attempted to close non-existent session"]>>
         /\ calls' = rest
         /\ UNCHANGED <<sessions, procs>>
    ELSE CloseContinue(sid, sessions[sid], config.endArgs, rest)

\* commands: shutdown takes the active sessions and closes the first.
Shutdown ==
    /\ impl = "commands"
    /\ ~Sweeping
    /\ Len(calls) + 1 < MaxCalls
    /\ IF ActiveList = <<>>
       THEN /\ ret' = <<Ok("closeAll", UnknownId)>>
            /\ UNCHANGED <<sessions, procs, calls>>
       ELSE SweepClose(Head(ActiveList),
                       Append(calls, Call("closeAll", Head(ActiveList), 0, "await",
                                          NoTimer, Tail(ActiveList), 0, NoMarker)))
    /\ UNCHANGED <<server, impl, security, config, sessionCounter, collectors, issued>>

\* commands: the awaited closeSession returned (or threw, which is caught):
\* the sweep closes the next session, or ends.
ShutdownNext(i) ==
    /\ SweepReady(i)
    /\ IF calls[i].cmds = <<>>
       THEN /\ calls' = RemoveAt(calls, i)
            /\ ret' = <<Ok("closeAll", UnknownId)>>
            /\ UNCHANGED <<sessions, procs>>
       ELSE SweepClose(Head(calls[i].cmds),
                       [calls EXCEPT ![i].sid = Head(calls[i].cmds),
                                     ![i].cmds = Tail(calls[i].cmds)])
    /\ UNCHANGED <<server, impl, security, config, sessionCounter, collectors, issued>>

\* tools: cleanup closes every session of the map, synchronously.
Cleanup ==
    /\ impl = "tools"
    /\ procs' = [p \in 1..Len(procs) |->
                    IF Has(procs[p].id) /\ sessions[procs[p].id] = p /\ procs[p].isActive
                    THEN [Kill(procs[p], "SIGTERM") EXCEPT !.isActive = FALSE]
                    ELSE procs[p]]
    /\ sessions' = [x \in {} |-> 0]
    /\ ret' = <<Ok("closeAll", UnknownId)>>
    /\ UNCHANGED <<server, impl, security, config, sessionCounter, calls, collectors, issued>>

(***************************************************************************)
(* The exposed tools: getToolDefinitions and handleReplTool over the       *)
(* commands manager, generateMcpTools and the execute callback of          *)
(* setupReplFromConfig over the tools manager.                             *)
(***************************************************************************)
S_start_session == <<"_", "s", "t", "a", "r", "t", "_", "s", "e", "s", "s", "i", "o", "n">>
S_close_session == <<"_", "c", "l", "o", "s", "e", "_", "s", "e", "s", "s", "i", "o", "n">>
S_send == <<"_", "s", "e", "n", "d">>
S_receive == <<"_", "r", "e", "c", "e", "i", "v", "e">>
S_send_receive == <<"_", "s", "e", "n", "d", "_", "r", "e", "c", "e", "i", "v", "e">>
S_recv == <<"_", "r", "e", "c", "v">>
S_send_recv == <<"_", "s", "e", "n", "d", "_", "r", "e", "c", "v">>

EndsWith(s, pat) ==
    Len(pat) <= Len(s) /\ SubSeq(s, Len(s) - Len(pat) + 1, Len(s)) = pat

\* toolName.split('_').pop()
RECURSIVE LastSegment(_)
LastSegment(s) ==
    IF s = <<>> THEN <<>>
    ELSE IF s[Len(s)] = "_" THEN <<>>
    ELSE Append(LastSegment(SubSeq(s, 1, Len(s) - 1)), s[Len(s)])

\* The names of the five tools of a manager.
ToolName(suffix) == ProgramName \o suffix

StartTool == ToolName(S_start_session)

SendTool == ToolName(S_send)

ReceiveTool == ToolName(IF impl = "commands" THEN S_receive ELSE S_recv)

CombinedTool == ToolName(IF impl = "commands" THEN S_send_receive ELSE S_send_recv)

CloseTool == ToolName(S_close_session)

ToolNames == {StartTool, SendTool, ReceiveTool, CombinedTool, CloseTool}

\* handleReplTool: the manager operation a tool name is routed to.
handleReplTool(toolName) ==
    LET action == LastSegment(toolName) IN
        IF action = <<"s", "e", "s", "s", "i", "o", "n">>
        THEN IF Includes(toolName, <<"s", "t", "a", "r", "t">>) THEN "start"
             ELSE IF Includes(toolName, <<"c", "l", "o", "s", "e">>) THEN "close"
             ELSE "unknown"
        ELSE IF action = <<"s", "e", "n", "d">>
        THEN IF Includes(toolName, <<"r", "e", "c", "e", "i", "v", "e">>) THEN "sendAndReceive" ELSE "send"
        ELSE IF action = <<"r", "e", "c", "e", "i", "v", "e">> THEN "receive"
        ELSE "unknown"

\* The execute callback of setupReplFromConfig: the first matching suffix.
execute(toolName) ==
    IF EndsWith(toolName, S_start_session) THEN "start"
    ELSE IF EndsWith(toolName, S_send) THEN "send"
    ELSE IF EndsWith(toolName, S_recv) THEN "receive"
    ELSE IF EndsWith(toolName, S_send_recv) THEN "sendAndReceive"
    ELSE IF EndsWith(toolName, S_close_session) THEN "close"
    ELSE "unknown"

Route(toolName) ==
    IF impl = "commands" THEN handleReplTool(toolName) ELSE execute(toolName)

\* What the tool answers when the manager operation ends with r: the text it
\* returns, or the message of the error it throws.
OutputOr(r, placeholder) ==
    IF r.out # <<>> THEN r.out
    ELSE IF impl = "tools" /\ r.errout # <<>> THEN r.errout
    ELSE <<placeholder>>

Thrown(r) == [isError |-> TRUE, text |-> <<r.err>>]

Answer(text) == [isError |-> FALSE, text |-> text]

Reply(r) ==
    IF impl = "commands"
    THEN IF r.err # "none" THEN Thrown(r)
         ELSE IF r.op \in {"receive", "sendAndReceive"}
         THEN Answer(OutputOr(r, "(no output)"))
         ELSE Answer(<<r.op, "done">>)
    ELSE IF r.op = "receive" THEN Answer(OutputOr(r, "No output received"))
    ELSE IF ~r.success THEN Thrown(r)
    ELSE IF r.op = "sendAndReceive"
    THEN Answer(OutputOr(r, "Command executed, no output"))
    ELSE Answer(<<r.op, "done">>)

\* A tool is invoked: the manager operation its name is routed to runs.
ToolCall(toolName, sid, command, timeout, marker) ==
    LET route == Route(toolName) IN
        IF route = "start"
        THEN \E t \in Timestamps, spawned \in BOOLEAN :
                IF impl = "commands"
                THEN StartSessionCommands(<<>>, t, spawned)
                ELSE StartSessionTools(<<>>, t, spawned)
        ELSE IF route = "send" THEN SendCommand(sid, command)
        ELSE IF route = "receive" THEN ReceiveOutput(sid, timeout, marker)
        ELSE IF route = "sendAndReceive"
        THEN SendAndReceive(sid, command, timeout, marker)
        ELSE IF route = "close"
        THEN IF impl = "commands"
             THEN CloseSessionCommands(sid, <<>>)
             ELSE CloseSessionTools(sid)
        ELSE /\ ret' = <<Fail("tool", sid, "UnknownTool")>>
             /\ UNCHANGED <<server, impl, security, config, sessionCounter, sessions, procs,
                            calls, collectors, issued>>

(***************************************************************************)
(* The child processes and the event loop.                                 *)
(***************************************************************************)
OnProcess(p, handler(_)) ==
    [i \in 1..Len(collectors) |->
        IF collectors[i].pid = p THEN handler(collectors[i]) ELSE collectors[i]]

\* 'data' on stdout, delivered to the attached listeners.
DeliverStdout(p, chunk) ==
    Collect(OnProcess(p, LAMBDA c : IF c.dataOn THEN stdoutHandler(c, chunk) ELSE c))

DeliverStderr(p, chunk) ==
    Collect(OnProcess(p, LAMBDA c : IF c.errOn THEN stderrHandler(c, chunk) ELSE c))

\* The process writes a chunk to its stdout: the stream delivers it when
\* flowing, and buffers it while no listener was ever attached.
ProcStdout(p, chunk) ==
    /\ procs[p].status = "running"
    /\ procs[p].emitted < MaxOut
    /\ IF procs[p].outFlowing
       THEN /\ procs' = [procs EXCEPT ![p].emitted = @ + 1]
            /\ DeliverStdout(p, chunk)
       ELSE /\ procs' = [procs EXCEPT ![p].emitted = @ + 1,
                                      ![p].outPending = Append(@, chunk)]
            /\ ret' = NoRet
            /\ UNCHANGED collectors
    /\ UNCHANGED <<server, impl, security, config, sessionCounter, sessions, calls, issued>>

\* An echo program (cat, the program of the repository's tests) writes back
\* the next line it has read from its stdin.
ProcEcho(p) ==
    /\ procs[p].status = "running"
    /\ procs[p].echoed < Len(procs[p].stdin)
    /\ LET chunk == procs[p].stdin[procs[p].echoed + 1].line IN
        IF procs[p].outFlowing
        THEN /\ procs' = [procs EXCEPT ![p].echoed = @ + 1]
             /\ DeliverStdout(p, chunk)
        ELSE /\ procs' = [procs EXCEPT ![p].echoed = @ + 1,
                                       ![p].outPending = Append(@, chunk)]
             /\ ret' = NoRet
             /\ UNCHANGED collectors
    /\ UNCHANGED <<server, impl, security, config, sessionCounter, sessions, calls, issued>>

ProcStderr(p, chunk) ==
    /\ procs[p].status = "running"
    /\ procs[p].emitted < MaxOut
    /\ IF procs[p].errFlowing
       THEN /\ procs' = [procs EXCEPT ![p].emitted = @ + 1]
            /\ DeliverStderr(p, chunk)
       ELSE /\ procs' = [procs EXCEPT ![p].emitted = @ + 1,
                                      ![p].errPending = Append(@, chunk)]
            /\ ret' = NoRet
            /\ UNCHANGED collectors
    /\ UNCHANGED <<server, impl, security, config, sessionCounter, sessions, calls, issued>>

\* A stream that started flowing delivers what it had buffered.
FlushStdout(p) ==
    /\ procs[p].outFlowing
    /\ procs[p].outPending # <<>>
    /\ procs' = [procs EXCEPT ![p].outPending = Tail(@)]
    /\ DeliverStdout(p, Head(procs[p].outPending))
    /\ UNCHANGED <<server, impl, security, config, sessionCounter, sessions, calls, issued>>

FlushStderr(p) ==
    /\ procs[p].errFlowing
    /\ procs[p].errPending # <<>>
    /\ procs' = [procs EXCEPT ![p].errPending = Tail(@)]
    /\ DeliverStderr(p, Head(procs[p].errPending))
    /\ UNCHANGED <<server, impl, security, config, sessionCounter, sessions, calls, issued>>

\* The process ends: the handlers registered by startSession clear isActive,
\* the close listeners of the collectors run, unread stream data is dropped.
ProcExit(p, code) ==
    /\ procs[p].status = "running"
    /\ ~(procs[p].outFlowing /\ procs[p].outPending # <<>>)
    /\ ~(procs[p].errFlowing /\ procs[p].errPending # <<>>)
    /\ procs' = [procs EXCEPT ![p].status = "exited", ![p].exitCode = code,
                              ![p].isActive = FALSE,
                              ![p].outPending = <<>>, ![p].errPending = <<>>]
    /\ Collect(OnProcess(p, LAMBDA c : IF c.closeOn THEN closeHandler(c, code) ELSE c))
    /\ UNCHANGED <<server, impl, security, config, sessionCounter, sessions, calls, issued>>

\* The process ends while a descendant of it still holds its output pipes:
\* 'exit' is emitted and 'close' is not.  tools clears isActive on 'exit';
\* commands registered its handler, and the listeners of its collectors, on
\* 'close'.
ProcEnds(p, code) ==
    /\ procs[p].status = "running"
    /\ procs' = [procs EXCEPT ![p].status = "ended", ![p].exitCode = code,
                              ![p].isActive = IF impl = "tools" THEN FALSE ELSE @]
    /\ ret' = NoRet
    /\ UNCHANGED <<server, impl, security, config, sessionCounter, sessions, calls,
                   collectors, issued>>

\* The output pipes of an ended process are closed at last: 'close'.
ProcStreamsClose(p) ==
    /\ procs[p].status = "ended"
    /\ ~(procs[p].outFlowing /\ procs[p].outPending # <<>>)
    /\ ~(procs[p].errFlowing /\ procs[p].errPending # <<>>)
    /\ procs' = [procs EXCEPT ![p].status = "exited", ![p].isActive = FALSE,
                              ![p].outPending = <<>>, ![p].errPending = <<>>]
    /\ Collect(OnProcess(p, LAMBDA c : IF c.closeOn
                                       THEN closeHandler(c, procs[p].exitCode)
                                       ELSE c))
    /\ UNCHANGED <<server, impl, security, config, sessionCounter, sessions, calls, issued>>

\* The process closes the reading end of its input and keeps running.
ProcClosesStdin(p) ==
    /\ procs[p].status = "running"
    /\ ~procs[p].readerGone
    /\ procs' = [procs EXCEPT ![p].readerGone = TRUE]
    /\ ret' = NoRet
    /\ UNCHANGED <<server, impl, security, config, sessionCounter, sessions, calls,
                   collectors, issued>>

\* The 'error' event of a stdin stream.  No listener is registered on any
\* stdin stream, so the event is an uncaught exception, and the handler of
\* the entry point ends the Node process: the manager, its sessions map and
\* every call in flight are gone.
UncaughtException(p) ==
    /\ procs[p].stdinError
    /\ server' = "exited"
    /\ procs' = [procs EXCEPT ![p].stdinError = FALSE]
    /\ sessions' = [x \in {} |-> 0]
    /\ calls' = <<>>
    /\ collectors' = <<>>
    /\ ret' = NoRet
    /\ UNCHANGED <<impl, security, config, sessionCounter, issued>>

\* The 'error' event of a process that could not be spawned.
SpawnError(p) ==
    /\ procs[p].status = "nospawn"
    /\ procs[p].id # UnknownId
    /\ procs' = [procs EXCEPT ![p].status = "failed", ![p].isActive = FALSE,
                              ![p].outPending = <<>>, ![p].errPending = <<>>]
    /\ Collect(OnProcess(p, LAMBDA c : IF c.closeOn THEN closeHandler(c, -2) ELSE c))
    /\ UNCHANGED <<server, impl, security, config, sessionCounter, sessions, calls, issued>>

\* The fixed wait of collectOutput expires.
WaitTimerFires(i) ==
    /\ collectors[i].waitTimer = 0
    /\ Collect([collectors EXCEPT ![i] = waitExpired(@)])
    /\ UNCHANGED <<server, impl, security, config, sessionCounter, sessions, procs, calls, issued>>

\* A timeout whose expiry also deactivates the session of the receive.
TimeoutFiresDeactivating(i) ==
    /\ collectors[i].op # "execute"
    /\ collectors[i].timeoutTimer = 0
    /\ collectors[i].waitTimer # 0
    /\ Collect([collectors EXCEPT ![i] = timeoutExpired(@)])
    /\ procs' = [procs EXCEPT ![collectors[i].pid].isActive = FALSE]
    /\ UNCHANGED <<server, impl, security, config, sessionCounter, sessions, calls, issued>>

\* The caller's timeout expires.  Of two timers of one collector due together
\* the one armed first (the fixed wait) fires first.
TimeoutFires(i) ==
    /\ collectors[i].op # "execute"
    /\ collectors[i].timeoutTimer = 0
    /\ collectors[i].waitTimer # 0
    /\ Collect([collectors EXCEPT ![i] = timeoutExpired(@)])
    /\ UNCHANGED <<server, impl, security, config, sessionCounter, sessions, procs, calls, issued>>

(***************************************************************************)
(* The SecurityValidator called directly, as its tests call it.            *)
(***************************************************************************)
\* The characters of the command texts handed to the validator.
TextAlphabet == {"a", " ", "&", "|", ";", ">", "<", "$", "(", "BQ"}

Texts == UNION {[1..n -> TextAlphabet] : n \in 0..MaxTextLen}

\* validator.validateCommand(command): the caller gets {valid, reason}.
Validate(command) ==
    /\ impl = "tools"
    /\ ret' = <<[Return("validate", UnknownId, "none",
                        SecurityValidateCommand(security, command).valid,
                        command, <<>>)
                   EXCEPT !.error = SecurityValidateCommand(security, command).reason]>>
    /\ UNCHANGED <<server, impl, security, config, sessionCounter, sessions, procs,
                   calls, collectors, issued>>

(***************************************************************************)
(* Single-shot commands: SingleCommandExecutor.execute (commands) and      *)
(* SingleCommandTool.execute (tools).  A run is a process outside the      *)
(* sessions map, with the listeners and the timer of its promise.          *)
(***************************************************************************)
\* maxTimeout of the SecurityValidator, in seconds.
MaxTimeoutS == 300

\* The configured timeouts of a tool, in milliseconds.
ExecTimeouts == {500, 400000}

TimedOutText == <<"t", "i", "m", "e", "d", " ", "o", "u", "t">>

\* The outcome of execute: thrown, or returned with these fields.
ExecResult(thrown, success, out, errout, error, exitCode) ==
    [Return("execute", UnknownId, IF thrown THEN "Thrown" ELSE "none", success, out, errout)
        EXCEPT !.error = error, !.exitCode = exitCode]

\* validateTimeout(timeout / 1000) of the SecurityValidator (tools).
ValidateTimeout(seconds1000) ==
    IF seconds1000 <= 0 THEN Reject(<<"positive">>)
    ELSE IF seconds1000 > MaxTimeoutS * 1000 THEN Reject(<<"maximum">>)
    ELSE Accept

\* What execute does before it spawns: the result it ends with, or NoResult.
ExecuteRefused(command, timeout) ==
    IF impl = "commands"
    THEN IF StaticValidateCommand(command).valid THEN NoResult
         ELSE ExecResult(TRUE, FALSE, <<>>, <<>>, <<"SecurityError">>, -1)
    ELSE IF ~SecurityValidateCommand(security, command).valid
    THEN ExecResult(FALSE, FALSE, <<>>, <<>>, <<"Security validation failed">>, -1)
    ELSE IF ~ValidateTimeout(timeout).valid
    THEN ExecResult(FALSE, FALSE, <<>>, <<>>, <<"Timeout validation failed">>, -1)
    ELSE NoResult

\* runCommand / executeCommand: the listeners on stdout, stderr and 'close'
\* are attached at once and the timer is armed.
NewExecution(pid, timeout) ==
    [op |-> "execute", sid |-> UnknownId, pid |-> pid, marker |-> NoMarker,
     stdout |-> <<>>, stderr |-> <<>>,
     resolved |-> FALSE, settled |-> FALSE, result |-> NoResult,
     dataOn |-> TRUE, errOn |-> TRUE, closeOn |-> TRUE,
     waitTimer |-> NoTimer, timeoutTimer |-> timeout]

\* execute up to its first await: validation, spawn, listeners, timer.
\* commands closes the stdin of the child at once.
Run(command, timeout, spawned) ==
    /\ Len(procs) < MaxSessions
    /\ Len(collectors) < MaxCollectors
    /\ IF ExecuteRefused(command, timeout) # NoResult
       THEN /\ ret' = <<ExecuteRefused(command, timeout)>>
            /\ UNCHANGED <<procs, collectors>>
       ELSE /\ procs' = Append(procs,
                           [(IF impl = "commands"
                             THEN EndStdin(NewProcess(UnknownId, spawned))
                             ELSE NewProcess(UnknownId, spawned))
                               EXCEPT !.outFlowing = TRUE, !.errFlowing = TRUE])
            /\ collectors' = Append(collectors, NewExecution(Len(procs) + 1, timeout))
            /\ ret' = NoRet
    /\ UNCHANGED <<server, impl, security, config, sessionCounter, sessions, calls, issued>>

\* execute of a tool whose command exists.
Execute(command, timeout) == Run(command, timeout, TRUE)

\* execute of a tool whose program cannot be spawned.
ExecuteMissing(command, timeout) == Run(command, timeout, FALSE)

\* The 'error' listener of a run: commands rejects, and execute rethrows what
\* is not a TimeoutError; tools resolves with the message and what was
\* collected.  A run that is settled already stays as it is.
executeErrorHandler(c) ==
    IF c.settled THEN [c EXCEPT !.resolved = TRUE]
    ELSE [c EXCEPT !.resolved = TRUE, !.settled = TRUE, !.timeoutTimer = NoTimer,
                   !.result = IF impl = "commands"
                              THEN ExecResult(TRUE, FALSE, <<>>, <<>>,
                                              <<"Failed to execute command">>, -1)
                              ELSE ExecResult(FALSE, FALSE, c.stdout, c.stderr,
                                              <<"spawn">>, -1)]

\* The child of a run could not be spawned: 'error', then 'close' with the
\* negative error number as its code.
ExecuteSpawnError(p) ==
    /\ procs[p].status = "nospawn"
    /\ procs[p].id = UnknownId
    /\ procs' = [procs EXCEPT ![p].status = "failed", ![p].isActive = FALSE,
                              ![p].outPending = <<>>, ![p].errPending = <<>>]
    /\ Collect(OnProcess(p, LAMBDA c : IF c.op = "execute"
                                       THEN closeHandler(executeErrorHandler(c), -2)
                                       ELSE c))
    /\ UNCHANGED <<server, impl, security, config, sessionCounter, sessions, calls, issued>>

\* A timeout that is thrown to the caller of execute.
TimedOutResultThrown(c) ==
    ExecResult(TRUE, FALSE, <<>>, <<>>, <<"C", "o", "m", "m", "a", "n", "d", " ">> \o TimedOutText, -1)

\* The result of a run whose timer fired: commands catches the TimeoutError of
\* withTimeout and returns it in stderr; tools resolves with an error text
\* and what was collected, untrimmed.
TimedOutResult(c) ==
    IF impl = "commands"
    THEN ExecResult(FALSE, FALSE, <<>>,
                    <<"C", "o", "m", "m", "a", "n", "d", " ">> \o TimedOutText \o <<":">>,
                    <<>>, -1)
    ELSE ExecResult(FALSE, FALSE, c.stdout, c.stderr,
                    <<"C", "o", "m", "m", "a", "n", "d", " ">> \o TimedOutText, -1)

\* The timer of a run fires before the process has closed.  tools sends
\* SIGTERM to the child; commands leaves it running.
ExecuteTimeoutFires(i) ==
    /\ collectors[i].op = "execute"
    /\ collectors[i].timeoutTimer = 0
    /\ ~collectors[i].settled
    /\ procs' = IF impl = "commands" THEN procs
                ELSE [procs EXCEPT ![collectors[i].pid] = Kill(@, "SIGTERM")]
    /\ Collect([collectors EXCEPT ![i] =
                   [@ EXCEPT !.timeoutTimer = NoTimer, !.settled = TRUE,
                             !.resolved = (impl = "tools"),
                             !.result = TimedOutResult(collectors[i])]])
    /\ UNCHANGED <<server, impl, security, config, sessionCounter, sessions, calls, issued>>

\* Time passes up to the next timer that is due.
Tick ==
    /\ Timers # {}
    /\ 0 \notin Timers
    /\ ~Immediate
    /\ ~\E i \in 1..Len(calls) : SweepReady(i)
    /\ LET d == MinOf(Timers) IN
        /\ calls' = [i \in 1..Len(calls) |->
                        [calls[i] EXCEPT !.timer = Elapse(@, d)]]
        /\ collectors' = [i \in 1..Len(collectors) |->
                            [collectors[i] EXCEPT !.waitTimer = Elapse(@, d),
                                                  !.timeoutTimer = Elapse(@, d)]]
    /\ ret' = NoRet
    /\ UNCHANGED <<server, impl, security, config, sessionCounter, sessions, procs, issued>>

Timeouts == IF impl = "commands" THEN CommandsTimeouts ELSE ToolsTimeouts

Next ==
    \/ \E args \in StartArgChoices, t \in Timestamps, spawned \in BOOLEAN :
          StartSessionCommands(args, t, spawned)
    \/ \E args \in StartArgChoices, t \in Timestamps, spawned \in BOOLEAN :
          StartSessionTools(args, t, spawned)
    \/ \E i \in 1..Len(calls) : StartGraceOver(i)
    \/ \E sid \in CallerIds, command \in SendTexts : SendCommand(sid, command)
    \/ \E sid \in CallerIds, timeout \in Timeouts, marker \in Markers :
          ReceiveOutput(sid, timeout, marker)
    \/ \E sid \in CallerIds, command \in SendTexts, timeout \in Timeouts,
          marker \in Markers : SendAndReceive(sid, command, timeout, marker)
    \/ \E i \in 1..Len(calls) : SettleOver(i)
    \/ \E sid \in CallerIds, args \in CloseArgChoices : CloseSessionCommands(sid, args)
    \/ \E i \in 1..Len(calls) : CloseNextCommand(i)
    \/ \E i \in 1..Len(calls) : CloseGraceOver(i)
    \/ \E i \in 1..Len(calls) : CloseTermOver(i)
    \/ \E sid \in CallerIds : CloseSessionTools(sid)
    \/ Shutdown
    \/ \E i \in 1..Len(calls) : ShutdownNext(i)
    \/ Cleanup
    \/ \E toolName \in ToolNames, sid \in CallerIds, command \in SendTexts,
          timeout \in Timeouts, marker \in Markers :
          ToolCall(toolName, sid, command, timeout, marker)
    \/ \E p \in 1..Len(procs), chunk \in StdoutChunks : ProcStdout(p, chunk)
    \/ \E p \in 1..Len(procs), chunk \in StderrChunks : ProcStderr(p, chunk)
    \/ \E p \in 1..Len(procs) : ProcEcho(p)
    \/ \E p \in 1..Len(procs) : FlushStdout(p)
    \/ \E p \in 1..Len(procs) : FlushStderr(p)
    \/ \E p \in 1..Len(procs), code \in ExitCodes : ProcExit(p, code)
    \/ \E p \in 1..Len(procs), code \in ExitCodes : ProcEnds(p, code)
    \/ \E p \in 1..Len(procs) : ProcStreamsClose(p)
    \/ \E p \in 1..Len(procs) : ProcClosesStdin(p)
    \/ \E p \in 1..Len(procs) : UncaughtException(p)
    \/ \E p \in 1..Len(procs) : SpawnError(p)
    \/ \E i \in 1..Len(collectors) : WaitTimerFires(i)
    \/ \E i \in 1..Len(collectors) : TimeoutFires(i)
    \/ \E command \in {T_ok, T_semi}, timeout \in ExecTimeouts : Execute(command, timeout)
    \/ \E i \in 1..Len(collectors) : ExecuteTimeoutFires(i)
    \/ \E command \in {T_ok, T_semi}, timeout \in ExecTimeouts :
          ExecuteMissing(command, timeout)
    \/ \E p \in 1..Len(procs) : ExecuteSpawnError(p)
    \/ \E command \in Texts : Validate(command)
    \/ Tick

Spec == Init /\ [][server = "up" /\ Next]_vars

(***************************************************************************)
(* Scenarios: the same actions, restricted to the operations a group of    *)
(* properties is about.                                                    *)
(***************************************************************************)
\* Output collection on the first session of a manager.
\* No receive is waiting for its result.
NoneInFlight ==
    /\ calls = <<>>
    /\ \A i \in 1..Len(collectors) : collectors[i].settled

NextOutput ==
    \/ sessionCounter = 0 /\ StartSessionCommands(<<>>, 1, TRUE)
    \/ sessionCounter = 0 /\ StartSessionTools(<<>>, 1, TRUE)
    \/ \E i \in 1..Len(calls) : StartGraceOver(i)
    \/ \E sid \in CallerIds, timeout \in Timeouts, marker \in Markers :
          NoneInFlight /\ ReceiveOutput(sid, timeout, marker)
    \/ \E p \in 1..Len(procs), chunk \in StdoutChunks : ProcStdout(p, chunk)
    \/ \E p \in 1..Len(procs), chunk \in StderrChunks : ProcStderr(p, chunk)
    \/ \E p \in 1..Len(procs) : FlushStdout(p)
    \/ \E p \in 1..Len(procs) : FlushStderr(p)
    \/ \E p \in 1..Len(procs), code \in ExitCodes : ProcExit(p, code)
    \/ \E i \in 1..Len(collectors) : WaitTimerFires(i)
    \/ \E i \in 1..Len(collectors) : TimeoutFires(i)
    \/ Tick

InitOutput == Init /\ config.endArgs = <<>> /\ security = DefaultSecurity

SpecOutput == InitOutput /\ [][NextOutput]_vars

\* The life of the first session of a manager: start, send, close, and the
\* process ending or failing to spawn.
NextSession ==
    \/ \E args \in StartArgChoices, t \in Timestamps, spawned \in BOOLEAN :
          sessionCounter = 0 /\ StartSessionCommands(args, t, spawned)
    \/ \E args \in StartArgChoices, t \in Timestamps, spawned \in BOOLEAN :
          sessionCounter = 0 /\ StartSessionTools(args, t, spawned)
    \/ \E i \in 1..Len(calls) : StartGraceOver(i)
    \/ \E sid \in CallerIds, command \in SendTexts : SendCommand(sid, command)
    \/ \E sid \in CallerIds, args \in CloseArgChoices : CloseSessionCommands(sid, args)
    \/ \E i \in 1..Len(calls) : CloseNextCommand(i)
    \/ \E i \in 1..Len(calls) : CloseGraceOver(i)
    \/ \E i \in 1..Len(calls) : CloseTermOver(i)
    \/ \E sid \in CallerIds : CloseSessionTools(sid)
    \/ \E p \in 1..Len(procs), code \in ExitCodes : ProcExit(p, code)
    \/ \E p \in 1..Len(procs) : SpawnError(p)
    \/ Tick

SpecSession == Init /\ [][NextSession]_vars

\* The registry under concurrent starts and closes of up to MaxSessions
\* sessions whose processes keep running until they are killed.
NextRegistry ==
    \/ \E t \in Timestamps : StartSessionCommands(<<>>, t, TRUE)
    \/ \E t \in Timestamps : StartSessionTools(<<>>, t, TRUE)
    \/ \E i \in 1..Len(calls) : StartGraceOver(i)
    \/ \E sid \in CallerIds \ {UnknownId} : CloseSessionCommands(sid, <<>>)
    \/ \E i \in 1..Len(calls) : CloseGraceOver(i)
    \/ \E i \in 1..Len(calls) : CloseTermOver(i)
    \/ \E sid \in CallerIds \ {UnknownId} : CloseSessionTools(sid)
    \/ Tick

InitRegistry == Init /\ config.endArgs = <<>> /\ security = DefaultSecurity

SpecRegistry == InitRegistry /\ [][NextRegistry]_vars

\* One session running an echo program: sends, and receive and sendAndReceive
\* calls made one after the other with the two-second timeout of the
\* repository's tests.
EchoTimeout == IF impl = "commands" THEN 2000 ELSE 2

NextEcho ==
    \/ sessionCounter = 0 /\ StartSessionCommands(<<>>, 1, TRUE)
    \/ sessionCounter = 0 /\ StartSessionTools(<<>>, 1, TRUE)
    \/ \E i \in 1..Len(calls) : StartGraceOver(i)
    \/ \E sid \in CallerIds \ {UnknownId} : SendCommand(sid, T_ok)
    \/ \E sid \in CallerIds \ {UnknownId} :
          NoneInFlight /\ ReceiveOutput(sid, EchoTimeout, NoMarker)
    \/ \E sid \in CallerIds \ {UnknownId} :
          NoneInFlight /\ SendAndReceive(sid, T_ok, EchoTimeout, NoMarker)
    \/ \E i \in 1..Len(calls) : SettleOver(i)
    \/ \E p \in 1..Len(procs) : ProcEcho(p)
    \/ \E p \in 1..Len(procs) : FlushStdout(p)
    \/ \E i \in 1..Len(collectors) : WaitTimerFires(i)
    \/ \E i \in 1..Len(collectors) : TimeoutFires(i)
    \/ Tick

SpecEcho == InitOutput /\ [][NextEcho]_vars

\* Closing every session of a manager whose sessions were started before the
\* sweep and whose processes may have ended on their own.
NextShutdown ==
    \/ ~Sweeping /\ StartSessionCommands(<<>>, 1, TRUE)
    \/ StartSessionTools(<<>>, 1, TRUE)
    \/ \E i \in 1..Len(calls) : StartGraceOver(i)
    \/ \E p \in 1..Len(procs), code \in ExitCodes : ProcExit(p, code)
    \/ Shutdown
    \/ \E i \in 1..Len(calls) : ShutdownNext(i)
    \/ \E i \in 1..Len(calls) : CloseNextCommand(i)
    \/ \E i \in 1..Len(calls) : CloseGraceOver(i)
    \/ \E i \in 1..Len(calls) : CloseTermOver(i)
    \/ Cleanup
    \/ Tick

SpecShutdown == Init /\ [][NextShutdown]_vars

\* The tools of one manager invoked on its first session, which runs an echo
\* program.  No tool name is routed to sendAndReceive, so the settle delay
\* of that operation never runs.
NextTools ==
    \/ \E toolName \in ToolNames, sid \in CallerIds, command \in {T_ok, T_semi} :
          /\ Route(toolName) = "start" => sessionCounter = 0
          /\ Route(toolName) = "receive" => NoneInFlight
          /\ ToolCall(toolName, sid, command, EchoTimeout, NoMarker)
    \/ \E i \in 1..Len(calls) : StartGraceOver(i)
    \/ \E i \in 1..Len(calls) : CloseGraceOver(i)
    \/ \E i \in 1..Len(calls) : CloseTermOver(i)
    \/ \E p \in 1..Len(procs) : SpawnError(p)
    \/ \E p \in 1..Len(procs) : ProcEcho(p)
    \/ \E p \in 1..Len(procs) : FlushStdout(p)
    \/ \E i \in 1..Len(collectors) : WaitTimerFires(i)
    \/ \E i \in 1..Len(collectors) : TimeoutFires(i)
    \/ Tick

SpecTools == InitOutput /\ [][NextTools]_vars

\* Several sessions side by side: operations on one of them, its process
\* ending, failing to spawn or closing its input, while the others stay as
\* they are.  One start, receive or close is in flight at a time; sends and
\* process events fall anywhere.  Nothing runs once the Node process has
\* exited.
NextIsolation ==
    \/ \E spawned \in BOOLEAN :
          server = "up" /\ NoneInFlight /\ StartSessionCommands(<<>>, 1, spawned)
    \/ \E spawned \in BOOLEAN :
          server = "up" /\ NoneInFlight /\ StartSessionTools(<<>>, 1, spawned)
    \/ \E i \in 1..Len(calls) : server = "up" /\ StartGraceOver(i)
    \/ \E sid \in CallerIds, command \in {T_ok, T_semi} :
          server = "up" /\ SendCommand(sid, command)
    \/ \E sid \in CallerIds :
          server = "up" /\ NoneInFlight /\ ReceiveOutput(sid, EchoTimeout, NoMarker)
    \/ \E sid \in CallerIds :
          server = "up" /\ NoneInFlight /\ CloseSessionCommands(sid, <<>>)
    \/ \E i \in 1..Len(calls) : server = "up" /\ CloseGraceOver(i)
    \/ \E i \in 1..Len(calls) : server = "up" /\ CloseTermOver(i)
    \/ \E sid \in CallerIds :
          server = "up" /\ NoneInFlight /\ CloseSessionTools(sid)
    \/ \E p \in 1..Len(procs) : server = "up" /\ ProcExit(p, 1)
    \/ \E p \in 1..Len(procs) : server = "up" /\ ProcClosesStdin(p)
    \/ \E p \in 1..Len(procs) : server = "up" /\ UncaughtException(p)
    \/ \E p \in 1..Len(procs) : server = "up" /\ SpawnError(p)
    \/ \E i \in 1..Len(collectors) : server = "up" /\ WaitTimerFires(i)
    \/ \E i \in 1..Len(collectors) : server = "up" /\ TimeoutFires(i)
    \/ server = "up" /\ Tick

SpecIsolation == InitOutput /\ [][NextIsolation]_vars

\* A close racing a receive: the first session of a manager, one receive,
\* and a close invoked while that receive is still in flight.
ReceiveInFlight == \E i \in 1..Len(collectors) : ~collectors[i].settled

NextCloseRace ==
    \/ sessionCounter = 0 /\ StartSessionCommands(<<>>, 1, TRUE)
    \/ sessionCounter = 0 /\ StartSessionTools(<<>>, 1, TRUE)
    \/ \E i \in 1..Len(calls) : StartGraceOver(i)
    \/ \E sid \in CallerIds, timeout \in Timeouts, marker \in Markers :
          collectors = <<>> /\ calls = <<>> /\ ReceiveOutput(sid, timeout, marker)
    \/ \E sid \in CallerIds : ReceiveInFlight /\ CloseSessionCommands(sid, <<>>)
    \/ \E i \in 1..Len(calls) : CloseGraceOver(i)
    \/ \E i \in 1..Len(calls) : CloseTermOver(i)
    \/ \E sid \in CallerIds : ReceiveInFlight /\ CloseSessionTools(sid)
    \/ \E p \in 1..Len(procs), chunk \in StdoutChunks : ProcStdout(p, chunk)
    \/ \E p \in 1..Len(procs) : FlushStdout(p)
    \/ \E p \in 1..Len(procs), code \in ExitCodes : ProcExit(p, code)
    \/ \E i \in 1..Len(collectors) : WaitTimerFires(i)
    \/ \E i \in 1..Len(collectors) : TimeoutFires(i)
    \/ Tick

SpecCloseRace == InitOutput /\ [][NextCloseRace]_vars

\* Single-shot commands: runs, their output, their end and their timeout.
NextExecute ==
    \/ \E command \in {T_ok, T_semi}, timeout \in ExecTimeouts : Execute(command, timeout)
    \/ \E p \in 1..Len(procs), chunk \in StdoutChunks : ProcStdout(p, chunk)
    \/ \E p \in 1..Len(procs), chunk \in StderrChunks : ProcStderr(p, chunk)
    \/ \E p \in 1..Len(procs), code \in ExitCodes : ProcExit(p, code)
    \/ \E i \in 1..Len(collectors) : ExecuteTimeoutFires(i)
    \/ Tick

SpecExecute == InitOutput /\ [][NextExecute]_vars

\* Single-shot commands with every event that can end a run: the close
\* of the child, its timeout, and the failure of its spawn.
NextRun ==
    \/ \E command \in {T_ok, T_semi}, timeout \in ExecTimeouts : Execute(command, timeout)
    \/ \E command \in {T_ok, T_semi}, timeout \in ExecTimeouts :
          ExecuteMissing(command, timeout)
    \/ \E p \in 1..Len(procs), chunk \in StdoutChunks : ProcStdout(p, chunk)
    \/ \E p \in 1..Len(procs), chunk \in StderrChunks : ProcStderr(p, chunk)
    \/ \E p \in 1..Len(procs), code \in ExitCodes : ProcExit(p, code)
    \/ \E p \in 1..Len(procs) : ExecuteSpawnError(p)
    \/ \E i \in 1..Len(collectors) : ExecuteTimeoutFires(i)
    \/ Tick

SpecRun == InitOutput /\ [][NextRun]_vars

\* Sessions whose processes end on their own, before or while they are
\* closed, with and without shutdown commands configured.
NextExited ==
    \/ \E t \in Timestamps : sessionCounter = 0 /\ StartSessionCommands(<<>>, t, TRUE)
    \/ \E t \in Timestamps : sessionCounter = 0 /\ StartSessionTools(<<>>, t, TRUE)
    \/ \E i \in 1..Len(calls) : StartGraceOver(i)
    \/ \E sid \in CallerIds, args \in CloseArgChoices : CloseSessionCommands(sid, args)
    \/ \E i \in 1..Len(calls) : CloseNextCommand(i)
    \/ \E i \in 1..Len(calls) : CloseGraceOver(i)
    \/ \E i \in 1..Len(calls) : CloseTermOver(i)
    \/ \E sid \in CallerIds : CloseSessionTools(sid)
    \/ \E p \in 1..Len(procs), code \in ExitCodes : ProcExit(p, code)
    \/ \E p \in 1..Len(procs), code \in ExitCodes : ProcEnds(p, code)
    \/ \E p \in 1..Len(procs) : ProcStreamsClose(p)
    \/ Tick

SpecExited == Init /\ [][NextExited]_vars

\* The validator alone, under each security configuration.
NextValidate == \E command \in Texts : Validate(command)

InitValidate == Init /\ impl = "tools"

SpecValidate == InitValidate /\ [][NextValidate]_vars

\* What the manager lists as active over the life of its sessions: starts,
\* closes, and processes that end, with their pipes closed at once or held
\* open, or that fail to spawn.
NextListing ==
    \/ \E spawned \in BOOLEAN : StartSessionCommands(<<>>, 1, spawned)
    \/ \E spawned \in BOOLEAN : StartSessionTools(<<>>, 1, spawned)
    \/ \E i \in 1..Len(calls) : StartGraceOver(i)
    \/ \E sid \in CallerIds : CloseSessionCommands(sid, <<>>)
    \/ \E i \in 1..Len(calls) : CloseGraceOver(i)
    \/ \E i \in 1..Len(calls) : CloseTermOver(i)
    \/ \E sid \in CallerIds : CloseSessionTools(sid)
    \/ \E p \in 1..Len(procs), code \in ExitCodes : ProcExit(p, code)
    \/ \E p \in 1..Len(procs), code \in ExitCodes : ProcEnds(p, code)
    \/ \E p \in 1..Len(procs) : ProcStreamsClose(p)
    \/ \E p \in 1..Len(procs) : SpawnError(p)
    \/ Tick

SpecListing == InitOutput /\ [][NextListing]_vars

(***************************************************************************)
(* Properties.                                                             *)
(***************************************************************************)
\* The ReplSession object that was registered under sid.
SessionObject(sid) == procs[CHOOSE p \in 1..Len(procs) : procs[p].id = sid]

Issued == {issued[i] : i \in 1..Len(issued)}

Returned(op) == {ret[k] : k \in {j \in 1..Len(ret) : ret[j].op = op}}

Signals(p) == {p.signals[k] : k \in 1..Len(p.signals)}

Closed(p) == ~p.isActive \/ "SIGKILL" \in Signals(p)

\* C2: when closeSession returns for a tracked session, the session is out
\* of the registry, is not listed as active, and is Closed.
CloseReachesClosed ==
    \A r \in Returned("close") :
        r.sid \in Issued =>
            /\ ~Has(r.sid)
            /\ r.sid \notin getActiveSessions
            /\ Closed(SessionObject(r.sid))

\* C3: when closeSession returns after a shutdown command failed, the input
\* stream of the process is closed and the process has been terminated.
CloseTerminatesAfterFailedShutdown ==
    \A r \in Returned("close") :
        r.warn = "Error during session cleanup" =>
            LET p == SessionObject(r.sid) IN
                p.status = "running" => p.stdinEnded /\ Signals(p) # {}

\* C4: a receive without end marker on a session whose process stays silent
\* and alive never ends with an error: it ends successfully with empty output.
SilentReceiveSucceeds ==
    \A i \in 1..Len(collectors) :
        LET c == collectors[i] IN
            (/\ c.marker = NoMarker
             /\ c.settled
             /\ procs[c.pid].emitted = 0
             /\ procs[c.pid].status = "running")
            => /\ c.result.err = "none"
               /\ c.result.success
               /\ c.result.out = <<>>
               /\ c.result.errout = <<>>

\* C5: send, receive and close on an id that was never allocated end with
\* a NotFound error.
UnknownIdNotFound ==
    \A k \in 1..Len(ret) :
        ret[k].sid = UnknownId /\ ret[k].op \in {"send", "receive", "close"}
            => ret[k].err \in {"NotFound", "NotFoundOrInactive"}

\* C6: a send on a session whose close is in progress is rejected.
ClosingRejectsSend ==
    \A r \in Returned("send") :
        r.err = "none" =>
            ~\E i \in 1..Len(calls) : calls[i].op = "close" /\ calls[i].sid = r.sid

\* C7: the id a successful startSession returns is listed by getActiveSessions
\* at the return.
StartedIsListed ==
    \A r \in Returned("start") : r.err = "none" => r.sid \in getActiveSessions

\* C7 witness: a start of the commands manager returned its id after the
\* grace interval.
StartedIsListedWitness ==
    /\ impl = "commands"
    /\ \E r \in Returned("start") : r.err = "none" /\ SessionOf(r.sid).status = "running"

\* C8: the ids the manager issued are pairwise distinct, and no session's
\* registry entry was overwritten by another session.
IdsDistinct ==
    /\ \A i, j \in 1..Len(issued) : i # j => issued[i] # issued[j]
    /\ \A p \in 1..Len(procs) : Has(procs[p].id) => sessions[procs[p].id] = p

\* C8 witness: two sessions created in the same millisecond are both
\* registered.
IdsDistinctWitness ==
    /\ Len(issued) = 2
    /\ issued[1][2] = issued[2][2]
    /\ Cardinality(DOMAIN sessions) = 2

\* C9: a startSession that returns an id returns the id of a process that
\* was spawned and is running.
StartFailsWithoutProcess ==
    \A r \in Returned("start") :
        r.err = "none" => SessionObject(r.sid).status = "running"

\* C10: once the accumulated standard output of a receive with an end marker
\* contains the marker, the receive has returned.
MarkerEndsReceive ==
    \A i \in 1..Len(collectors) :
        LET c == collectors[i] IN
            c.marker # NoMarker /\ Includes(c.stdout, c.marker) => c.settled

\* C11: a sendAndReceive on an echo program that returns after the program
\* has written back every line it was sent returns, without error, output
\* that contains the text of the call.
EchoIsReturned ==
    \A r \in Returned("sendAndReceive") :
        LET p == SessionObject(r.sid) IN
            p.status = "running" /\ p.echoed = Len(p.stdin)
                => r.err = "none" /\ Includes(r.out, T_ok)

\* C12: when closeAll returns, no session is listed as active and every
\* process has ended or has been sent SIGKILL, the one signal a process
\* cannot ignore.
CloseAllTerminates ==
    \A r \in Returned("closeAll") :
        /\ getActiveSessions = {}
        /\ \A p \in 1..Len(procs) :
              procs[p].status # "running" \/ "SIGKILL" \in Signals(procs[p])

\* C13: when closeAll returns, every session the registry tracked has had
\* its close attempt, which removes its entry: the registry is empty.
CloseAllSweepsRegistry ==
    \A r \in Returned("closeAll") : DOMAIN sessions = {}

\* C14: every invocation of the combined send-and-receive tool with an
\* accepted command on an active session whose process reads its stdin
\* writes one line to that stdin.
CombinedToolSends ==
    [][\A sid \in DOMAIN sessions, command \in SendTexts :
          (/\ ToolCall(CombinedTool, sid, command, EchoTimeout, NoMarker)
           /\ LookupError(sid) = "none"
           /\ ValidateCommand(command).valid
           /\ SessionOf(sid).status = "running"
           /\ ~SessionOf(sid).stdinEnded)
          => Len(procs'[sessions[sid]].stdin) = Len(SessionOf(sid).stdin) + 1]_vars

LookupErrors == {"NotFound", "NotActive", "NotFoundOrInactive"}

\* C15: what the receive and send-and-receive tools answer for an unknown or
\* non-active session id is an error, and differs from what they answer for
\* an active session that produced no output before the deadline.
InvalidIdDistinctFromEmpty ==
    \A k \in 1..Len(ret) :
        ret[k].op \in {"receive", "sendAndReceive"} /\ ret[k].err \in LookupErrors
            => /\ Reply(ret[k]).isError
               /\ Reply(ret[k]) # Reply(Ok(ret[k].op, ret[k].sid))

\* C16: a step in which a send returns SecurityRejected changes neither the
\* registry nor any session or process, and leaves the session active and
\* ready to accept a send of accepted text.
RejectedSendLeavesSession ==
    [][\A k \in 1..Len(ret') :
          ret'[k].op = "send" /\ ret'[k].err = "SecurityRejected"
              => /\ UNCHANGED <<sessions, procs, calls, collectors>>
                 /\ ret'[k].sid \in getActiveSessions
                 /\ SendError(ret'[k].sid, T_ok) = "none"]_vars

\* C16 witness: a send was rejected by the gate on an active session whose
\* process is running and has been written nothing.
RejectedSendLeavesSessionWitness ==
    \E r \in Returned("send") :
        /\ r.err = "SecurityRejected"
        /\ r.sid \in getActiveSessions
        /\ SessionOf(r.sid).status = "running"
        /\ SessionOf(r.sid).stdin = <<>>

\* C17: the expiry of a timer of a receive changes neither the registry nor
\* any session or process, and a session that accepted calls before the
\* expiry accepts them after it.
TimeoutLeavesSession ==
    [][\A i \in 1..Len(collectors) :
          TimeoutFires(i) \/ WaitTimerFires(i)
              => /\ UNCHANGED <<sessions, procs, calls>>
                 /\ \A sid \in Issued :
                       LookupError(sid) = "none" => SendError(sid, T_ok)' = "none"]_vars

\* C17 witness: a receive has just ended at its deadline (with TimeoutError
\* in commands, with what it collected in tools) and its session is active
\* with a running process.
TimeoutLeavesSessionWitness ==
    \E r \in Returned("receive") :
        /\ r.sid \in getActiveSessions
        /\ SessionOf(r.sid).status = "running"
        /\ \/ r.err = "Timeout"
           \/ /\ impl = "tools"
              /\ \E i \in 1..Len(collectors) :
                    /\ collectors[i].result = r
                    /\ collectors[i].dataOn
                    /\ collectors[i].timeoutTimer = NoTimer
\* What a session is for the registry: the ReplSession object with its
\* process, the listeners the receives attached to that process, and the
\* entry of the sessions map.
ListenersOn(p) ==
    {[op |-> collectors[i].op, dataOn |-> collectors[i].dataOn,
      errOn |-> collectors[i].errOn, closeOn |-> collectors[i].closeOn] :
        i \in {k \in 1..Len(collectors) : collectors[k].pid = p}}

RegistryEntry(p) ==
    IF procs[p].id \in DOMAIN sessions THEN sessions[procs[p].id] ELSE 0

Touched(p) ==
    \/ procs'[p] # procs[p]
    \/ ListenersOn(p)' # ListenersOn(p)
    \/ RegistryEntry(p)' # RegistryEntry(p)

\* C18: sessions are isolated.  No step of the system (an operation on a
\* session, a failure of its spawn or of a write to it, its process ending)
\* changes the session object, the process, the attached listeners or the
\* registry entry of more than one session, a step that starts a session
\* changes no existing one, and the registry is still being served after
\* the step.
SessionsIsolated ==
    [][/\ server' = "up"
       /\ \A p, q \in 1..Len(procs) : p # q => ~(Touched(p) /\ Touched(q))
       /\ Len(procs') > Len(procs) => \A p \in 1..Len(procs) : ~Touched(p)]_vars

\* C19: a close invoked while a receive on the same session is in flight.
\* In every interleaving the receive is answered by its deadline (while it
\* is unanswered its deadline timer is still armed, and time does not pass
\* a timer that is due), and once the close has completed (the registry
\* entry is gone and no close is suspended) and the process is destroyed,
\* no stdout, stderr or close listener of that receive is attached.
ClosedReceiveDetached ==
    \A i \in 1..Len(collectors) :
        LET c == collectors[i] IN
            /\ ~c.settled => c.timeoutTimer # NoTimer
            /\ (/\ procs[c.pid].status = "exited"
                /\ ~Has(c.sid)
                /\ ~\E k \in 1..Len(calls) : calls[k].sid = c.sid)
                   => ~(c.dataOn \/ c.errOn \/ c.closeOn)

\* C20: the lines written to the input of a session are exactly the accepted
\* sends, in the order they completed.  A send that returns success appends
\* exactly one line, its text followed by a newline, to what was written
\* before, and nothing else changes what was written, except the closing
\* commands that closeSession writes itself.
AcceptedSend(p) ==
    \E k \in 1..Len(ret') :
        ret'[k].op = "send" /\ ret'[k].success /\ ret'[k].sid = procs[p].id

StdinIsAcceptedSends ==
    [][\A p \in 1..Len(procs) :
          IF AcceptedSend(p)
          THEN /\ Len(procs'[p].stdin) = Len(procs[p].stdin) + 1
               /\ SubSeq(procs'[p].stdin, 1, Len(procs[p].stdin)) = procs[p].stdin
               /\ LET w == procs'[p].stdin[Len(procs'[p].stdin)] IN
                      w.line = w.text \o <<"NL">>
          ELSE \/ procs'[p].stdin = procs[p].stdin
               \/ \E args \in CloseArgChoices :
                     CloseSessionCommands(procs[p].id, args)
               \/ \E i \in 1..Len(calls) : CloseNextCommand(i)]_vars

\* C21: when the timer of a single-shot command fires before the command
\* has finished, execute returns (it does not throw) a result with success
\* false whose error text (the error field, or stderr) says the command
\* timed out.
ExecuteTimeoutIsReturned ==
    [][\A i \in 1..Len(collectors) :
          ExecuteTimeoutFires(i)
              => /\ Len(ret') = 1
                 /\ ret'[1].op = "execute"
                 /\ ret'[1].err # "Thrown"
                 /\ ~ret'[1].success
                 /\ \/ Includes(ret'[1].error, TimedOutText)
                    \/ Includes(ret'[1].errout, TimedOutText)]_vars

\* C21 witness: a run has just timed out while its process was running.
ExecuteTimeoutIsReturnedWitness ==
    /\ Len(ret) = 1
    /\ ret[1].op = "execute"
    /\ ret[1].err = "none"
    /\ Includes(ret[1].error \o ret[1].errout, TimedOutText)
    /\ \E p \in 1..Len(procs) : procs[p].id = UnknownId /\ procs[p].status = "running"

\* The operators the security guide lists: && || ; | > < >> << & $( and the
\* backquote.
ShellOperators ==
    {<<"&", "&">>, <<"|", "|">>, <<";">>, <<"|">>, <<">">>, <<"<">>, <<">", ">">>,
     <<"<", "<">>, <<"&">>, <<"$", "(">>, <<"BQ">>}

OperatorsIn(text) == {o \in ShellOperators : Includes(text, o)}

\* C22: with shell operators not allowed, validateCommand rejects every text
\* that contains one of the shell operators, and the reason names a dangerous
\* operator that the text contains; with allowShellOperators = true no text
\* is rejected for that reason.
OperatorsRejectedByDefault ==
    \A k \in 1..Len(ret) :
        ret[k].op = "validate" =>
            /\ (~security.allowShellOperators /\ OperatorsIn(ret[k].out) # {})
                  => /\ ~ret[k].success
                     /\ Len(ret[k].error) = 2
                     /\ ret[k].error[1] = "operator"
                     /\ ret[k].error[2] \in OperatorsIn(ret[k].out)
            /\ security.allowShellOperators
                  => (ret[k].success \/ ret[k].error[1] # "operator")

\* C22 witness: a text with a command substitution was rejected under the
\* default configuration.
OperatorsRejectedByDefaultWitness ==
    /\ ~security.allowShellOperators
    /\ Len(ret) = 1
    /\ ret[1].op = "validate"
    /\ ret[1].out = <<"$", "(">>
    /\ ~ret[1].success

\* The receives of a process: those holding a stdout or stderr listener on
\* it, and those that have not returned yet.
ListenerPairs(p) ==
    {i \in 1..Len(collectors) :
        collectors[i].pid = p /\ (collectors[i].dataOn \/ collectors[i].errOn)}

ReceivesInFlight(p) ==
    {i \in 1..Len(collectors) : collectors[i].pid = p /\ ~collectors[i].settled}

\* C23: in every reachable state the number of stdout/stderr listener pairs
\* attached to the process of a session equals the number of receives in
\* flight on it: a receive that has returned, for whatever reason, has
\* detached its pair.
ListenersMatchReceives ==
    \A p \in 1..Len(procs) :
        Cardinality(ListenerPairs(p)) = Cardinality(ReceivesInFlight(p))

\* C24: a receive with an end marker that has not appeared when its deadline
\* fires returns, at that moment, a successful result holding the stdout and
\* stderr accumulated since it began: the deadline is not reported as an
\* error and the output is not discarded.
DeadlineReturnsAccumulated ==
    [][\A i \in 1..Len(collectors) :
          (/\ TimeoutFires(i)
           /\ collectors[i].marker # NoMarker
           /\ ~collectors[i].settled)
              => \E k \in 1..Len(ret') :
                    /\ ret'[k].op = collectors[i].op
                    /\ ret'[k].err = "none"
                    /\ ret'[k].success
                    /\ ret'[k].out = Trim(collectors[i].stdout)
                    /\ ret'[k].errout = Trim(collectors[i].stderr)]_vars

\* C25: a receive without end marker, on a process that stays alive, does
\* not return before its caller's timeout T has elapsed (its deadline timer
\* has run down to zero when one of its timers ends it), and what it
\* returns holds every chunk delivered since it began.
ReceiveWaitsForDeadline ==
    [][\A i \in 1..Len(collectors) :
          (/\ collectors[i].op = "receive"
           /\ collectors[i].marker = NoMarker
           /\ ~collectors[i].settled
           /\ (WaitTimerFires(i) \/ TimeoutFires(i)))
              => /\ collectors[i].timeoutTimer = 0
                 /\ \E k \in 1..Len(ret') :
                       /\ ret'[k].op = "receive"
                       /\ ret'[k].out = Trim(collectors[i].stdout)
                       /\ ret'[k].errout = Trim(collectors[i].stderr)]_vars

\* C26: when the process of a session closes while a receive is in flight,
\* with or without end marker, the receive returns in that step, with the
\* output accumulated so far and success exactly when the exit code is 0.
CloseEndsReceive ==
    [][\A p \in 1..Len(procs), code \in ExitCodes :
          ProcExit(p, code) =>
              \A i \in 1..Len(collectors) :
                  (collectors[i].pid = p /\ ~collectors[i].settled)
                      => \E k \in 1..Len(ret') :
                            /\ ret'[k].op = collectors[i].op
                            /\ ret'[k].err = "none"
                            /\ ret'[k].success = (code = 0)
                            /\ ret'[k].out = Trim(collectors[i].stdout)
                            /\ ret'[k].errout = Trim(collectors[i].stderr)]_vars

\* C27: a receive invoked on a session whose process has already closed
\* returns in that step a result (not an error) flagged with the final
\* status of the process: success exactly when its exit code was 0.
ClosedSessionReceiveReturnsStatus ==
    [][\A sid \in Issued, timeout \in Timeouts, marker \in Markers :
          (SessionObject(sid).status = "exited" /\ ReceiveOutput(sid, timeout, marker))
              => /\ Len(ret') = 1
                 /\ ret'[1].op = "receive"
                 /\ ret'[1].err = "none"
                 /\ ret'[1].success = (SessionObject(sid).exitCode = 0)]_vars

\* C28: when a close that issued its graceful termination request (stdin
\* closed, or SIGTERM) returns, the process has exited or the forced kill
\* has been sent: a process that ignores the graceful request does not
\* survive the close.
CloseForcesKill ==
    \A k \in 1..Len(ret) :
        (ret[k].op = "close" /\ ret[k].warn = "none" /\ ret[k].sid \in Issued)
            => LET p == SessionObject(ret[k].sid) IN
                   p.status = "running" => "SIGKILL" \in Signals(p)

\* C29: the steps of a close happen in order.  While a close is under way
\* the session is no longer Active; a kill signal is sent only to a process
\* whose input stream the close has closed before; and when the close
\* returns the input stream of a process that still runs is closed and the
\* session is out of the registry.
CloseStepsInOrder ==
    /\ \A i \in 1..Len(calls) :
          calls[i].op = "close" => calls[i].sid \notin getActiveSessions
    /\ \A p \in 1..Len(procs) :
          (procs[p].id \in Issued /\ Signals(procs[p]) # {}) => procs[p].stdinEnded
    /\ \A k \in 1..Len(ret) :
          (ret[k].op = "close" /\ ret[k].sid \in Issued)
              => /\ ~Has(ret[k].sid)
                 /\ LET p == SessionObject(ret[k].sid) IN
                        p.status = "running" => p.stdinEnded

\* C30: a send that passes lookup and gate and whose write reaches an input
\* stream that is already closed (stdin.end() was called by a close, or the
\* process closed its input) does not report success: the text was not
\* delivered.
ClosedStdinSendFails ==
    [][\A sid \in Issued, command \in SendTexts :
          (/\ Has(sid)
           /\ SendError(sid, command) = "none"
           /\ SessionOf(sid).stdinEnded \/ SessionOf(sid).readerGone
           /\ SendCommand(sid, command))
              => \A k \in 1..Len(ret') : ret'[k].op = "send" => ~ret'[k].success]_vars

\* What getActiveSessions returns is what is Active: every listed id is in
\* the registry and its process has neither exited nor failed, the id of a
\* close that has just returned is not listed, and a registered session
\* whose process runs is listed.
ListedAreActive ==
    /\ \A sid \in getActiveSessions :
          /\ Has(sid)
          /\ SessionOf(sid).status \notin {"ended", "exited", "failed"}
    /\ \A r \in Returned("close") : r.sid \notin getActiveSessions
    /\ \A sid \in DOMAIN sessions :
          SessionOf(sid).status = "running" => sid \in getActiveSessions

\* C31: getActiveSessions lists exactly the registry sessions that are
\* Active.  After every step, every listed id is in the registry and its
\* process has neither exited nor failed; the id of a close that has just
\* returned is not listed; a registered session whose process runs is
\* listed; and an id that is no longer listed is never listed again.
ListsExactlyActive ==
    [][/\ ListedAreActive'
       /\ \A sid \in Issued :
             sid \notin getActiveSessions => sid \notin getActiveSessions']_vars

\* C32: when the timer of a single-shot command fires, the child process is
\* terminated as part of that step: at the return of the timed-out result
\* the child of the call has been sent a termination signal, or runs no
\* longer.
TimedOutChildTerminated ==
    [][\A i \in 1..Len(collectors) :
          ExecuteTimeoutFires(i)
              => LET p == procs'[collectors[i].pid] IN
                     p.status # "running" \/ Signals(p) # {}]_vars

\* C33: a receive that completed before its deadline (its end marker was
\* found, or the process closed) holds no armed timer from that moment on:
\* every timer set for it was cancelled when it completed, so none of them
\* can fire afterwards.
EarlyCompletionCancelsTimers ==
    \A i \in 1..Len(collectors) :
        LET c == collectors[i] IN
            (c.op # "execute" /\ c.settled /\ c.result.err = "none")
                => c.waitTimer = NoTimer /\ c.timeoutTimer = NoTimer

\* The results of the receives that have returned, in listener order.
SettledResults(cs) ==
    LET done == SelectSeq(cs, LAMBDA c : c.op # "execute" /\ c.settled)
    IN  [k \in 1..Len(done) |-> done[k].result]

RECURSIVE IsSubseq(_, _)
IsSubseq(a, b) ==
    IF a = <<>> THEN TRUE
    ELSE IF b = <<>> THEN FALSE
    ELSE IF Head(a) = Head(b) THEN IsSubseq(Tail(a), Tail(b))
    ELSE IsSubseq(a, Tail(b))

\* C34: a receive settles exactly once.  In every step the receives that
\* return are receives that had not returned before (no more results are
\* handed out than receives were waiting), and the result of every receive
\* that had returned stays what it was, whatever chunk, timer or close
\* event the step delivers to its listeners.
ReceiveSettlesOnce ==
    [][/\ Cardinality({k \in 1..Len(ret') :
                          /\ ret'[k].op \in {"receive", "sendAndReceive"}
                          /\ ret'[k].err \in {"none", "Timeout"}})
              <= Cardinality({i \in 1..Len(collectors) : ~collectors[i].settled})
       /\ IsSubseq(SelectSeq(SettledResults(collectors'),
                             LAMBDA r : \A k \in 1..Len(ret') : ret'[k] # r),
                   SettledResults(collectors))]_vars

\* C34 witness: a receive that the deadline had ended was reached afterwards
\* by the event that would have ended it (its marker, or the close of the
\* process).
ReceiveSettlesOnceWitness ==
    \E i \in 1..Len(collectors) :
        /\ collectors[i].op = "receive"
        /\ collectors[i].settled
        /\ collectors[i].resolved
        /\ collectors[i].result.err = "Timeout"

\* The results of the single-shot runs that have returned, in listener order.
SettledRuns(cs) ==
    LET done == SelectSeq(cs, LAMBDA c : c.op = "execute" /\ c.settled)
    IN  [k \in 1..Len(done) |-> done[k].result]

\* C35: a single-shot run settles exactly once.  A step returns no more
\* results of runs than runs were waiting (a step that leaves the runs as
\* they are returns at most the refusal of one call), and the result of
\* every run that had returned stays what it was when the close event, the
\* error event or the timer of that run comes afterwards.
ExecuteSettlesOnce ==
    [][/\ Cardinality({k \in 1..Len(ret') : ret'[k].op = "execute"})
              <= IF collectors' = collectors
                 THEN 1
                 ELSE Cardinality({i \in 1..Len(collectors) :
                                      collectors[i].op = "execute"
                                      /\ ~collectors[i].settled})
       /\ IsSubseq(SelectSeq(SettledRuns(collectors'),
                             LAMBDA r : \A k \in 1..Len(ret') : ret'[k] # r),
                   SettledRuns(collectors))]_vars

\* C35 witness: the child of a run that had timed out has closed afterwards,
\* and the run still holds the timed-out result.
ExecuteSettlesOnceWitness ==
    \E i \in 1..Len(collectors) :
        /\ collectors[i].op = "execute"
        /\ collectors[i].settled
        /\ Includes(collectors[i].result.error \o collectors[i].result.errout,
                    TimedOutText)
        /\ procs[collectors[i].pid].status = "exited"

\* C36: a start that fails leaves nothing behind.  When startSession
\* reports a failure, the registry holds no entry for the id allocated to
\* the attempt, and no process of the attempt is running.
FailedStartLeavesNothing ==
    \A r \in Returned("start") :
        r.err # "none" =>
            /\ ~Has(r.sid)
            /\ \A p \in 1..Len(procs) :
                  procs[p].id = r.sid => procs[p].status # "running"

\* A close of the session is suspended at one of its waits.
CloseInProgress(sid) ==
    \E i \in 1..Len(calls) : calls[i].op = "close" /\ calls[i].sid = sid

\* closeSession(sid) is called in this step.
CloseCalled(sid) ==
    \/ \E args \in CloseArgChoices : CloseSessionCommands(sid, args)
    \/ CloseSessionTools(sid)

\* C37: at most one close sequence runs per session.  A close called on an
\* id whose close has completed (the id was issued and is out of the
\* registry) reports NotFound and changes nothing; a close called while a
\* close of the same id is in progress writes nothing to the process and
\* does not end its input; and no process is sent the same signal twice.
OneClosePerSession ==
    [][/\ \A sid \in Issued :
             (~Has(sid) /\ ~Starting(sid) /\ CloseCalled(sid))
                 => /\ ret' = <<Fail("close", sid, "NotFound")>>
                    /\ procs' = procs
                    /\ sessions' = sessions
       /\ \A sid \in Issued :
             (CloseInProgress(sid) /\ CloseCalled(sid)) => procs' = procs
       /\ \A p \in 1..Len(procs') :
             \A j, k \in 1..Len(procs'[p].signals) :
                 j # k => procs'[p].signals[j] # procs'[p].signals[k]]_vars

\* The process of the session object has exited.
HasExited(p) == procs[p].status \in {"ended", "exited"}

\* A step of a closeSession of the session: its call, or one of its
\* continuations.
CloseStep(sid) ==
    \/ CloseCalled(sid)
    \/ \E i \in 1..Len(calls) :
          /\ calls[i].op = "close"
          /\ calls[i].sid = sid
          /\ (CloseNextCommand(i) \/ CloseGraceOver(i) \/ CloseTermOver(i))

\* C38: a session whose process exited on its own stays in the registry,
\* inactive, until close is called for it: while it is registered it is
\* not active, only a step of a close of that session removes its entry,
\* when such a close returns the entry is gone, and no signal is sent to
\* the exited process, whatever shutdown commands are configured.
ExitedStaysUntilClosed ==
    [][/\ \A p \in 1..Len(procs') :
             (procs'[p].status \in {"ended", "exited"}
              /\ procs'[p].id \in DOMAIN sessions') => ~procs'[p].isActive
       /\ \A p \in 1..Len(procs) :
             HasExited(p) =>
                 /\ procs'[p].signals = procs[p].signals
                 /\ (Has(procs[p].id) /\ procs[p].id \notin DOMAIN sessions')
                       => CloseStep(procs[p].id)
                 /\ \A k \in 1..Len(ret') :
                       (ret'[k].op = "close" /\ ret'[k].sid = procs[p].id)
                           => procs[p].id \notin DOMAIN sessions']_vars

====
